---- MODULE Spec2Model ----
(***************************************************************************)
(* Flappy Wind: the simulation core of the GameCanvas component, its game  *)
(* loop, its touch controls and the React state it shares with them.       *)
(*                                                                         *)
(* Units.  The program computes in floating point; the model computes in   *)
(* fixed point:                                                            *)
(*   lengths and positions   1/100 pixel                                   *)
(*   velocities              1/100 pixel per second                        *)
(*   time                    millisecond                                   *)
(*   wind energy, cost       1/100 energy point                            *)
(*   unit-vector components, influence, animation progress   1/1000        *)
(* Products that are not exact in these units are truncated toward zero.   *)
(*                                                                         *)
(* React state.  setGameState / setIsDrawing do not change what the        *)
(* callbacks read: they queue an update (pending).  Commit applies the     *)
(* queue in order, re-renders (every callback then closes over the new     *)
(* gameState / isDrawing) and runs the effects.  Refs change at once.      *)
(*                                                                         *)
(* Math.random: pipe gap placement is an input of the frame; the jitter of *)
(* particles, clouds, the shake offset and the pipe colour are cosmetic    *)
(* and not represented, nor is gameOverOpacity, which only the overlay     *)
(* reads.                                                                  *)
(*                                                                         *)
(* Spec explores every operation on the small canvas, where a run ends     *)
(* within a few ticks; SpecLong explores one long run on the large canvas, *)
(* far enough for obstacles to be hit and passed.                          *)
(***************************************************************************)
EXTENDS Integers, Sequences, FiniteSets, TLC

VARIABLES
    canvas,             \* canvasDimensions prop: [width, height] in pixels
    gameState,          \* rendered gameState (what the callbacks close over)
    isDrawing,          \* rendered isDrawing of useTouchControls
    pending,            \* queued state updates, oldest first
    drawStart,          \* drawStartRef.current  (a point or NoPoint)
    drawCurrent,        \* drawCurrentRef.current
    bird,               \* birdRef.current
    pipes,              \* pipesRef.current
    gusts,              \* gustsRef.current
    particles,          \* particlesRef.current, by colour
    nextPipeTime,       \* nextPipeTimeRef.current (ms)
    gameTime,           \* gameTimeRef.current (ms)
    shake,              \* shakeRef.current.intensity (1/100)
    gameOverTriggered,  \* gameOverTriggeredRef.current
    lastTimeSet,        \* lastTimeRef.current is non-zero
    storedBest,         \* localStorage "flappyWindBestScore"
    overFx,             \* game-over cues emitted since the last restart
    overTicks,          \* accepted frames since the game-over was rendered
    stale,              \* callbacks that ran before a queued update was rendered
    restarts,           \* restarts handled so far
    loop,               \* useGameLoop: isRunningRef.current, whether the
                        \* frame named by animationFrameRef is still to come,
                        \* and the scheduled callbacks it names no longer
    frameLog,           \* calls of update and render made in the last step
    audio,              \* what the Web Audio nodes do when a sound is asked for
    sounds,             \* useAudio: the oscillators created so far, oldest
                        \* first (followed in SpecSound)
    clock               \* the frame timestamps: the currentTime of the last
                        \* frame callback, lastTimeRef.current and the
                        \* deltaTime of the last two callbacks (ms)

vars == <<canvas, gameState, isDrawing, pending, drawStart, drawCurrent, bird,
          pipes, gusts, particles, nextPipeTime, gameTime, shake,
          gameOverTriggered, lastTimeSet, storedBest, overFx, overTicks,
          stale, restarts, loop, frameLog, audio, clock, sounds>>

(***************************************************************************)
(* Bounds of the exploration                                               *)
(***************************************************************************)
\* accepted frames of one run explored with every operation enabled
MaxTicks == 3
\* accepted frames of the run explored by the single-run specification SpecLong
MaxLongTicks == 57
\* callbacks that may run while an update is queued and not yet rendered
MaxStale == 2
\* accepted frames explored after a game-over has been rendered
MaxOverTicks == 1
\* restarts explored
MaxRestarts == 1

\* accepted frames of the run explored with the window being resized
MaxResizeTicks == 4

\* accepted frames of the run explored until an obstacle has left the canvas
MaxScrollTicks == 61

\* accepted frames of the run explored until a gust has worn off
MaxGustTicks == 15

\* time explored with the frame timestamps kept (ms), and the accepted
\* frames of that run
MaxClockMs == 400
MaxClockTicks == 3

\* oscillators followed in the set of useAudio
MaxSounds == 3

\* applications of the gust forces to one sampled bird
MaxPushes == 2
\* obstacles spawned on one sampled canvas
MaxSpawns == 2

\* accepted frames of the run explored with gusts blowing at the bird
MaxWindTicks == 12
\* gusts alive at a time in that run
MaxWindGusts == 1

\* performance.now() when the page is loaded (ms)
ClockStart == 1000
\* time between two animation frames (ms): 0 and >= 100 are dropped
FrameElapsed == {0, 90, 100}
\* Math.random() in createPipe, in 1/1000
RandomSamples == {0, 999}
\* canvas sizes (pixels) the responsive hook can produce
LargeCanvas == [width |-> 400, height |-> 300]
SmallCanvas == [width |-> 400, height |-> 80]
CanvasSizes == {LargeCanvas, SmallCanvas}
\* strokes that start on the bird of the large canvas and point at a wall
WindDownPoints == {[x |-> 50, y |-> 150]}
WindMovePoints == {[x |-> 0, y |-> 150], [x |-> 350, y |-> 150]}
\* the canvas before the responsive hook has measured the window, and two
\* canvases of the mobile branch in landscape
DefaultCanvas == [width |-> 800, height |-> 600]
LowCanvas == [width |-> 400, height |-> 160]
SampleCanvases == {DefaultCanvas, LargeCanvas, LowCanvas, SmallCanvas}
\* the canvases of a desktop window that is made larger or smaller
ResizeCanvases == {DefaultCanvas, LargeCanvas}
\* Math.random() in createPipe for the sampled spawns, in 1/1000
SpawnSamples == {0, 500, 999}
\* where a sampled bird is, right of the centre of the canvas (pixels)
BirdOffsets == {-50, 0, 100, 200}
\* accepted steps of the game loop (ms)
StepSamples == {16, 90}
\* where the pointer goes down, and where it may be moved to (pixels)
DownPoints == {[x |-> 300, y |-> 40]}
MovePoints == {[x |-> 312, y |-> 56], [x |-> 150, y |-> 40]}

(***************************************************************************)
(* Arithmetic helpers                                                      *)
(***************************************************************************)
Max(a, b) == IF a >= b THEN a ELSE b
Min(a, b) == IF a <= b THEN a ELSE b
Abs(a) == IF a < 0 THEN -a ELSE a

\* a * num / den, truncated toward zero
Scale(a, num, den) ==
    IF a * num >= 0 THEN (a * num) \div den ELSE -((-(a * num)) \div den)

RECURSIVE SqrtSearch(_, _, _)
SqrtSearch(n, lo, hi) ==
    IF lo >= hi THEN lo
    ELSE LET mid == (lo + hi + 1) \div 2
         IN  IF mid * mid <= n THEN SqrtSearch(n, mid, hi)
             ELSE SqrtSearch(n, lo, mid - 1)

\* Math.sqrt on a non-negative integer, rounded down
Sqrt(n) == SqrtSearch(n, 0, 40000)

NoPoint == [x |-> -1, y |-> -1]

(***************************************************************************)
(* Program constants                                                       *)
(***************************************************************************)
GRAVITY == 800
FLAP_POWER == -300
MAX_WIND_ENERGY == 100
WIND_REGEN_RATE == 15
\* GUST_COST_PER_PIXEL = 0.5, in 1/1000
GUST_COST_PER_PIXEL == 500
GUST_BASE_POWER == 1200
\* GUST_LIFE = 1.2 s, in ms
GUST_LIFE == 1200

\* constants derived from the canvas size (1/100 pixel, 1/100 pixel per s)
CANVAS_WIDTH == canvas.width * 100
CANVAS_HEIGHT == canvas.height * 100
PIPE_WIDTH == Max(4000, (CANVAS_WIDTH * 75) \div 1000)
PIPE_GAP == Max(12000, (CANVAS_HEIGHT * 25) \div 100)
PIPE_SPEED == Max(15000, (CANVAS_WIDTH * 25) \div 100)
GUST_RADIUS == Max(6000, (CANVAS_WIDTH * 125) \div 1000)

\* the bird a run starts with
InitialBird ==
    [x |-> (CANVAS_WIDTH * 125) \div 1000,
     y |-> CANVAS_HEIGHT \div 2,
     radius |-> Max(1500, (CANVAS_WIDTH * 25) \div 1000),
     vy |-> 0, vx |-> 0, rotation |-> 0]

InitialGameState ==
    [isRunning |-> FALSE, gameOver |-> FALSE, score |-> 0,
     bestScore |-> storedBest, windEnergy |-> 10000]

(***************************************************************************)
(* gameHelpers: distance, normalize, checkCollision                        *)
(***************************************************************************)
\* distance between two pointer positions given in pixels (1/100 pixel,
\* resolved to 1/10 pixel)
distance(p1, p2) ==
    10 * Sqrt(100 * ((p1.x - p2.x) * (p1.x - p2.x) + (p1.y - p2.y) * (p1.y - p2.y)))

\* unit vector of vec (1/1000); the zero vector for a zero-length input
normalize(vec) ==
    LET len == distance(vec, [x |-> 0, y |-> 0])
    IN  IF len > 0
        THEN [x |-> Scale(vec.x, 100000, len), y |-> Scale(vec.y, 100000, len)]
        ELSE [x |-> 0, y |-> 0]

\* checkCollision with a touching side counted as an overlap
checkCollisionTouching(b, pipe) ==
    /\ b.x + b.radius >= pipe.x
    /\ b.x - b.radius <= pipe.x + pipe.width
    /\ (b.y - b.radius < pipe.topHeight \/ b.y + b.radius > pipe.bottomY)

checkCollision(b, pipe) ==
    LET birdLeft == b.x - b.radius
        birdRight == b.x + b.radius
        birdTop == b.y - b.radius
        birdBottom == b.y + b.radius
        pipeLeft == pipe.x
        pipeRight == pipe.x + pipe.width
    IN  /\ birdRight > pipeLeft
        /\ birdLeft < pipeRight
        /\ (birdTop < pipe.topHeight \/ birdBottom > pipe.bottomY)

(***************************************************************************)
(* physics: createPipe, applyGustForce, updateBird, updateGusts,           *)
(* updateParticles                                                         *)
(***************************************************************************)
\* createPipe with the lower edge put at the bottom margin
createPipeBottomAtMargin(x, canvasHeight, pipeWidth, pipeGap, rnd) ==
    LET minTopHeight == (canvasHeight * 15) \div 100
        maxTopHeight == canvasHeight - pipeGap - (canvasHeight * 15) \div 100
        topHeight == Scale(maxTopHeight - minTopHeight, rnd, 1000) + minTopHeight
    IN  [x |-> x, topHeight |-> topHeight, bottomY |-> canvasHeight - minTopHeight,
         width |-> pipeWidth, gap |-> pipeGap, passed |-> FALSE,
         animationOffset |-> 0]

\* rnd is Math.random() in 1/1000
createPipe(x, canvasHeight, pipeWidth, pipeGap, rnd) ==
    LET minTopHeight == (canvasHeight * 15) \div 100
        maxTopHeight == canvasHeight - pipeGap - (canvasHeight * 15) \div 100
        topHeight == Scale(maxTopHeight - minTopHeight, rnd, 1000) + minTopHeight
    IN  [x |-> x, topHeight |-> topHeight, bottomY |-> topHeight + pipeGap,
         width |-> pipeWidth, gap |-> pipeGap, passed |-> FALSE,
         animationOffset |-> 0]

\* is the offset (dx, dy) inside the circle of radius r
Within(dx, dy, r) == Abs(dx) < r /\ Abs(dy) < r /\ dx * dx + dy * dy < r * r

\* 1 - (dist / radius) ^ 2, in 1/1000
Influence(dx, dy, r) == 1000 - (1000 * (dx * dx + dy * dy)) \div (r * r)

\* the bird pushed along the gust's direction by force
Pushed(b, gust, force) ==
    [b EXCEPT !.vx = b.vx + Scale(gust.direction.x, force, 1000),
              !.vy = b.vy + Scale(gust.direction.y, force, 1000)]

\* the bird after a gust at offset (dx, dy), radius r (1/10 pixel) has acted
GustActs(b, gust, dx, dy, r) ==
    IF Within(dx, dy, r)
    THEN Pushed(b, gust, Scale(gust.magnitude, Influence(dx, dy, r), 2000))
    ELSE b

\* the bird after one gust has acted on it; offsets are taken in 1/10 pixel
applyGustForce(b, gust) ==
    GustActs(b, gust, Scale(b.x - gust.x, 1, 10), Scale(b.y - gust.y, 1, 10),
             gust.radius \div 10)

RECURSIVE ApplyGusts(_, _)
ApplyGusts(b, gs) ==
    IF gs = << >> THEN b ELSE ApplyGusts(applyGustForce(b, Head(gs)), Tail(gs))

\* bird.rotation, in 1/1000 radian
Rotation(vy) == Max(-1047, Min(1571, Scale(vy, 3, 100)))

\* bird.vy += GRAVITY * deltaTime
Gravitated(b, deltaTime) == [b EXCEPT !.vy = b.vy + (GRAVITY * deltaTime) \div 10]

\* Integrated without the integration of the height
IntegratedKeepsHeight(b, deltaTime) ==
    [b EXCEPT !.vx = Scale(b.vx, 98, 100),
              !.x = b.x + Scale(Scale(b.vx, 98, 100), deltaTime, 1000),
              !.rotation = Rotation(b.vy)]

\* the drag on vx, the integration of the position, the rotation
Integrated(b, deltaTime) ==
    [b EXCEPT !.vx = Scale(b.vx, 98, 100),
              !.x = b.x + Scale(Scale(b.vx, 98, 100), deltaTime, 1000),
              !.y = b.y + Scale(b.vy, deltaTime, 1000),
              !.rotation = Rotation(b.vy)]

\* ClampedLeft without the stop
ClampedLeftKeepsSpeed(b) ==
    IF b.x < b.radius THEN [b EXCEPT !.x = b.radius] ELSE b

ClampedLeft(b) ==
    IF b.x < b.radius THEN [b EXCEPT !.x = b.radius, !.vx = 0] ELSE b

ClampedRight(b, canvasWidth) ==
    IF b.x > canvasWidth - b.radius
    THEN [b EXCEPT !.x = canvasWidth - b.radius, !.vx = 0]
    ELSE b

\* the bird after the integration and the horizontal clamp of updateBird
MovedBird(b, deltaTime, gs, canvasWidth) ==
    ClampedRight(
        ClampedLeft(Integrated(ApplyGusts(Gravitated(b, deltaTime), gs), deltaTime)),
        canvasWidth)

\* the terminal test at the end of updateBird
OutOfBounds(b, canvasHeight) ==
    b.y < b.radius \/ b.y > canvasHeight - b.radius

\* DecayGust without the decay
DecayGustFrozen(gust, deltaTime) == gust

DecayGust(gust, deltaTime) == [gust EXCEPT !.life = gust.life - deltaTime]

RECURSIVE updateGusts(_, _)
updateGusts(gs, deltaTime) ==
    IF gs = << >> THEN << >>
    ELSE LET g == DecayGust(Head(gs), deltaTime)
             rest == updateGusts(Tail(gs), deltaTime)
         IN  IF g.life > 0 THEN <<g>> \o rest ELSE rest

\* particles are kept by colour: the remaining life (ms) of the youngest
\* burst of that colour, 0 when none is alive
Colours == {"gold", "blue", "green", "red"}
NoParticles == [c \in Colours |-> 0]
createParticles(parts, colour) == [parts EXCEPT ![colour] = 500]
updateParticles(parts, deltaTime) ==
    [c \in Colours |-> IF parts[c] - deltaTime > 0 THEN parts[c] - deltaTime ELSE 0]

(***************************************************************************)
(* React state: the queued updates and their application at a commit       *)
(***************************************************************************)
Upd(kind, value) == [k |-> kind, v |-> value]

\* Debited without the floor at zero
DebitedUnclamped(windEnergy, cost) == windEnergy - cost

\* the updater createGust queues: windEnergy after a debit of cost
Debited(windEnergy, cost) == Max(0, windEnergy - cost)

\* the updater updateWindEnergy queues: windEnergy after deltaTime ms
Regenerated(windEnergy, deltaTime) ==
    Min(MAX_WIND_ENERGY * 100, windEnergy + (WIND_REGEN_RATE * deltaTime) \div 10)

\* RestartState without the running flag
RestartStateIdle(bestScore) ==
    [isRunning |-> FALSE, gameOver |-> FALSE, score |-> 0,
     bestScore |-> bestScore, windEnergy |-> 10000]

\* the state the restart branch of handleGameStart sets
RestartState(bestScore) ==
    [isRunning |-> TRUE, gameOver |-> FALSE, score |-> 0,
     bestScore |-> bestScore, windEnergy |-> 10000]

\* one queued update applied to st = [gs |-> gameState, drawing |-> isDrawing]
ApplyUpdate(u, st) ==
    LET g == st.gs
    IN  CASE u.k = "over" -> [st EXCEPT !.gs.gameOver = TRUE]
          [] u.k = "run" -> [st EXCEPT !.gs.isRunning = TRUE]
          [] u.k = "score" -> [st EXCEPT !.gs.score = g.score + 1]
          [] u.k = "debit" -> [st EXCEPT !.gs.windEnergy = Debited(g.windEnergy, u.v)]
          [] u.k = "regen" -> [st EXCEPT !.gs.windEnergy = Regenerated(g.windEnergy, u.v)]
          [] u.k = "restart" -> [st EXCEPT !.gs = RestartState(u.v)]
          [] u.k = "best" -> [st EXCEPT !.gs.bestScore = u.v]
          [] u.k = "draw" -> [st EXCEPT !.drawing = (u.v = 1)]

RECURSIVE ApplyAll(_, _)
ApplyAll(q, st) ==
    IF q = << >> THEN st ELSE ApplyAll(Tail(q), ApplyUpdate(Head(q), st))

\* the state the next render will show
Next_State == ApplyAll(pending, [gs |-> gameState, drawing |-> isDrawing])

(***************************************************************************)
(* GameCanvas: what a callback changes besides the bird and the pipes      *)
(*   trig  gameOverTriggeredRef     pend  queued updates                   *)
(*   shk   shake intensity          parts particles     fx  game-over cues *)
(***************************************************************************)
\* the Web Audio nodes work, or throw when they are used
AudioStates == {"ok", "faulty"}

\* playSound that lets the exception out
playSoundUncaught(a) == IF a = "faulty" THEN "raised" ELSE "played"

\* useAudio.playSound: how the call ends for its caller.  The whole body is
\* one try block, the catch logs the error.
playSound(a) == IF a = "faulty" THEN "caught" ELSE "played"

\* a callback that asks for a sound: it goes on from before to after unless
\* the call raises
Cued(before, after) == IF playSound(audio) = "raised" THEN before ELSE after

(***************************************************************************)
(* useAudio: the oscillators playSound has created.  Each is in the        *)
(* active set or not, its gain node and itself are connected or not, its   *)
(* ended event and its cleanup timeout are still to come or not.           *)
(***************************************************************************)
\* the oscillator playSound has added to the set, started and scheduled
NewOscillator ==
    [inSet |-> TRUE, gainOn |-> TRUE, oscOn |-> TRUE,
     ending |-> TRUE, timer |-> TRUE]

\* cleanup of playSound: the ways it can end.  disconnect() of a node that
\* is not connected may throw; the catch then skips the rest.
cleanup(o) ==
    {[o EXCEPT !.gainOn = FALSE, !.oscOn = FALSE, !.inSet = FALSE]}
    \cup (IF ~o.gainOn THEN {o} ELSE {})
    \cup (IF ~o.oscOn THEN {[o EXCEPT !.gainOn = FALSE]} ELSE {})

\* stopAllSounds without the clearing of the set
stopAllSoundsKeepsSet(s) ==
    [i \in 1..Len(s) |->
        IF s[i].inSet /\ s[i].ending THEN [s[i] EXCEPT !.oscOn = FALSE]
        ELSE s[i]]

\* stopAllSounds: every oscillator of the set is stopped and disconnected
\* (stop() of one that has ended throws, which is caught), the set cleared
stopAllSounds(s) ==
    [i \in 1..Len(s) |->
        IF s[i].inSet /\ s[i].ending
        THEN [s[i] EXCEPT !.oscOn = FALSE, !.inSet = FALSE]
        ELSE [s[i] EXCEPT !.inSet = FALSE]]

Fx == [trig |-> gameOverTriggered, pend |-> pending, shk |-> shake,
       parts |-> particles, fx |-> overFx]

addScreenShake(intensity, amount) == Max(intensity, amount)

\* 0.1 ^ (deltaTime / 1000) in 1/10000, ten milliseconds at a time
RECURSIVE ShakeFactor(_)
ShakeFactor(deltaTime) ==
    IF deltaTime < 10 THEN 10000
    ELSE (ShakeFactor(deltaTime - 10) * 9772) \div 10000

updateScreenShake(intensity, deltaTime) ==
    IF intensity > 0
    THEN LET i == (intensity * ShakeFactor(deltaTime)) \div 10000
         IN  IF i < 10 THEN 0 ELSE i
    ELSE 0

handleGameOver(e) ==
    IF e.trig THEN e
    ELSE Cued([e EXCEPT !.trig = TRUE,
                        !.pend = Append(e.pend, Upd("over", 0)),
                        !.fx.sound = e.fx.sound + 1],
              [trig |-> TRUE,
               pend |-> Append(e.pend, Upd("over", 0)),
               shk |-> addScreenShake(e.shk, 1500),
               parts |-> createParticles(e.parts, "red"),
               fx |-> [sound |-> e.fx.sound + 1, shake |-> e.fx.shake + 1,
                       burst |-> e.fx.burst + 1]])

\* the terminal check at the end of updateBird, on the moved bird m
TerminalCheck(m, canvasHeight, e) ==
    IF OutOfBounds(m, canvasHeight)
    THEN [bird |-> [m EXCEPT !.vx = 0, !.vy = 0], e |-> handleGameOver(e)]
    ELSE [bird |-> m, e |-> e]

\* updateBird: [bird, e] after the call
updateBird(b, deltaTime, gs, canvasWidth, canvasHeight, e, isGameOver) ==
    IF isGameOver
    THEN [bird |-> [b EXCEPT !.vx = 0, !.vy = 0], e |-> e]
    ELSE TerminalCheck(MovedBird(b, deltaTime, gs, canvasWidth), canvasHeight, e)

\* pipe.x -= PIPE_SPEED * deltaTime
ScrolledX(pipe, deltaTime) == pipe.x - Scale(PIPE_SPEED, deltaTime, 1000)

\* ScrolledPipe without the marking of the passed obstacle
ScrolledPipeUnmarked(pipe, deltaTime, birdX) ==
    [pipe EXCEPT !.x = ScrolledX(pipe, deltaTime)]

\* one pipe after the forEach body of updatePipes
ScrolledPipe(pipe, deltaTime, birdX) ==
    [pipe EXCEPT !.x = ScrolledX(pipe, deltaTime),
                 !.animationOffset = IF pipe.animationOffset < 1000
                                     THEN pipe.animationOffset + deltaTime * 3
                                     ELSE pipe.animationOffset,
                 !.passed = pipe.passed
                            \/ (ScrolledX(pipe, deltaTime) + pipe.width < birdX)]

\* Scores without the test of the passed flag
ScoresUnguarded(pipe, deltaTime, birdX) ==
    ScrolledX(pipe, deltaTime) + pipe.width < birdX

\* does the forEach body score this pipe
Scores(pipe, deltaTime, birdX) ==
    /\ ~pipe.passed
    /\ ScrolledX(pipe, deltaTime) + pipe.width < birdX

RECURSIVE ScrollPipes(_, _, _)
ScrollPipes(ps, deltaTime, birdX) ==
    IF ps = << >> THEN << >>
    ELSE <<ScrolledPipe(Head(ps), deltaTime, birdX)>>
            \o ScrollPipes(Tail(ps), deltaTime, birdX)

RECURSIVE ScoreCount(_, _, _)
ScoreCount(ps, deltaTime, birdX) ==
    IF ps = << >> THEN 0
    ELSE (IF Scores(Head(ps), deltaTime, birdX) THEN 1 ELSE 0)
            + ScoreCount(Tail(ps), deltaTime, birdX)

\* OnScreen with the pipe kept for another width
OnScreenLonger(pipe) == pipe.x > -2 * pipe.width

\* the filter of updatePipes: a pipe stays while pipe.x > -pipe.width
OnScreen(pipe) == pipe.x > -pipe.width

RECURSIVE PrunePipes(_)
PrunePipes(ps) ==
    IF ps = << >> THEN << >>
    ELSE IF OnScreen(Head(ps)) THEN <<Head(ps)>> \o PrunePipes(Tail(ps))
         ELSE PrunePipes(Tail(ps))

RECURSIVE AppendScores(_, _)
AppendScores(q, n) ==
    IF n = 0 THEN q ELSE AppendScores(Append(q, Upd("score", 0)), n - 1)

AnyCollision(b, ps) == \E i \in 1..Len(ps) : checkCollision(b, ps[i])

\* the countdown after it was decremented: spawn and reset at zero or below
SpawnDue(countdown) == countdown <= 0

\* the score updates and the burst of n pipes passed in this tick
Scored(e, n) ==
    IF n > 0
    THEN Cued([e EXCEPT !.pend = AppendScores(e.pend, 1)],
              [e EXCEPT !.pend = AppendScores(e.pend, n),
                        !.parts = createParticles(e.parts, "green")])
    ELSE e

\* the pipes after the spawn step, countdown already decremented
Spawned(kept, countdown, rnd) ==
    IF SpawnDue(countdown)
    THEN Append(kept, createPipe(CANVAS_WIDTH + 5000, CANVAS_HEIGHT,
                                 PIPE_WIDTH, PIPE_GAP, rnd))
    ELSE kept

\* Rearmed with the countdown left at zero
RearmedAtZero(countdown) == IF SpawnDue(countdown) THEN 0 ELSE countdown

\* the countdown after the spawn step
Rearmed(countdown) == IF SpawnDue(countdown) THEN 2500 ELSE countdown

\* the collision loop at the end of updatePipes
CollisionCheck(b, ps, countdown, e) ==
    [pipes |-> ps, next |-> countdown,
     e |-> IF AnyCollision(b, ps) THEN handleGameOver(e) ELSE e]

\* updatePipes: [pipes, next, e] after the call
updatePipes(ps, countdown, b, deltaTime, rnd, e, isGameOver) ==
    IF isGameOver THEN [pipes |-> ps, next |-> countdown, e |-> e]
    ELSE CollisionCheck(b,
            Spawned(PrunePipes(ScrollPipes(ps, deltaTime, b.x)),
                    countdown - deltaTime, rnd),
            Rearmed(countdown - deltaTime),
            Scored(e, ScoreCount(ps, deltaTime, b.x)))

\* updateWindEnergy: the queue after the call
updateWindEnergy(q, deltaTime, windEnergy) ==
    IF windEnergy < MAX_WIND_ENERGY * 100
    THEN Append(q, Upd("regen", deltaTime))
    ELSE q

(***************************************************************************)
(* Callbacks of GameCanvas and useTouchControls.  They read the rendered   *)
(* gameState / isDrawing and change the refs and the update queue:         *)
(***************************************************************************)
Refs == [pend |-> pending, bird |-> bird, pipes |-> pipes, gusts |-> gusts,
         parts |-> particles, next |-> nextPipeTime, time |-> gameTime,
         trig |-> gameOverTriggered, fx |-> overFx, over |-> overTicks,
         start |-> drawStart, current |-> drawCurrent]

Store(c) ==
    /\ pending' = c.pend
    /\ bird' = c.bird
    /\ pipes' = c.pipes
    /\ gusts' = c.gusts
    /\ particles' = c.parts
    /\ nextPipeTime' = c.next
    /\ gameTime' = c.time
    /\ gameOverTriggered' = c.trig
    /\ overFx' = c.fx
    /\ overTicks' = c.over
    /\ drawStart' = c.start
    /\ drawCurrent' = c.current

NoFx == [sound |-> 0, shake |-> 0, burst |-> 0]

\* the bird the restart branch of handleGameStart puts in birdRef
RestartBird ==
    [x |-> (CANVAS_WIDTH * 125) \div 1000,
     y |-> (CANVAS_HEIGHT * 5) \div 10,
     radius |-> Max(1500, (CANVAS_WIDTH * 25) \div 1000),
     vy |-> 0, vx |-> 0, rotation |-> 0]

\* Restarted without the clearing of the gusts
RestartedKeepsGusts(c) ==
    [c EXCEPT !.pend = Append(c.pend, Upd("restart", gameState.bestScore)),
              !.bird = RestartBird,
              !.pipes = << >>,
              !.parts = NoParticles,
              !.next = 2000,
              !.time = 0,
              !.fx = NoFx,
              !.over = 0]

\* the restart branch of handleGameStart
Restarted(c) ==
    [c EXCEPT !.pend = Append(c.pend, Upd("restart", gameState.bestScore)),
              !.bird = RestartBird,
              !.pipes = << >>,
              !.gusts = << >>,
              !.parts = NoParticles,
              !.next = 2000,
              !.time = 0,
              !.fx = NoFx,
              !.over = 0]

\* the flap at the end of handleGameStart
Flapped(c) ==
    Cued([c EXCEPT !.bird.vy = FLAP_POWER * 100],
         [c EXCEPT !.bird.vy = FLAP_POWER * 100,
                   !.parts = createParticles(c.parts, "gold")])

\* the one-shot guard as handleGameStart leaves it
ClearedLatch(trig) == FALSE

handleGameStart(c) ==
    LET c1 == [c EXCEPT !.trig = ClearedLatch(c.trig)]
    IN  IF gameState.gameOver THEN Restarted(c1)
        ELSE LET c2 == IF ~gameState.isRunning
                       THEN [c1 EXCEPT !.pend = Append(c1.pend, Upd("run", 0)),
                                       !.next = 2000]
                       ELSE c1
             IN  IF ~gameState.isRunning THEN Cued(c2, Flapped(c2))
                 ELSE Flapped(c2)

\* the energy createGust reads
GustEnergy == gameState.windEnergy

\* cost of a stroke of the given length (1/100 pixel) at the given energy
GustCost(strokeLength, windEnergy) ==
    Min((strokeLength * GUST_COST_PER_PIXEL) \div 1000, windEnergy)

\* strokeLength * 1.5 of createGust, the factor in 1/10
strokeToForceRatio == 15

\* magnitude of the gust of a stroke (1/100 pixel per s)
GustMagnitude(strokeLength) ==
    Min((strokeLength * 15) \div 10, GUST_BASE_POWER * 100)

\* GustRejected without the cost floor
GustRejectedNoFloor(strokeLength, cost) == strokeLength < 2000

\* does createGust return null
GustRejected(strokeLength, cost) == strokeLength < 2000 \/ cost < 1000

NewGust(start, end, strokeLength) ==
    [x |-> start.x * 100, y |-> start.y * 100,
     direction |-> normalize([x |-> end.x - start.x, y |-> end.y - start.y]),
     magnitude |-> GustMagnitude(strokeLength),
     radius |-> GUST_RADIUS,
     life |-> GUST_LIFE, maxLife |-> GUST_LIFE]

\* handleWindGust: createGust, and the gust pushed when there is one
handleWindGust(start, end, c) ==
    LET strokeLength == distance(start, end)
        cost == GustCost(strokeLength, GustEnergy)
    IN  IF GustRejected(strokeLength, cost) THEN c
        ELSE Cued([c EXCEPT !.pend = Append(c.pend, Upd("debit", cost))],
                  [c EXCEPT !.pend = Append(c.pend, Upd("debit", cost)),
                            !.parts = createParticles(c.parts, "blue"),
                            !.gusts = Append(c.gusts,
                                             NewGust(start, end, strokeLength))])

\* handleStart recording the draw start also when it hands the tap on
handleStartAlwaysDraws(pos, c) ==
    IF ~gameState.isRunning \/ gameState.gameOver
    THEN [handleGameStart(c) EXCEPT !.pend = Append(@, Upd("draw", 1)),
                                    !.start = pos, !.current = pos]
    ELSE [c EXCEPT !.pend = Append(c.pend, Upd("draw", 1)),
                   !.start = pos, !.current = pos]

\* useTouchControls.handleStart
handleStart(pos, c) ==
    IF ~gameState.isRunning /\ ~gameState.gameOver THEN handleGameStart(c)
    ELSE IF gameState.gameOver THEN handleGameStart(c)
    ELSE IF ~gameState.isRunning THEN c
    ELSE [c EXCEPT !.pend = Append(c.pend, Upd("draw", 1)),
                   !.start = pos, !.current = pos]

\* useTouchControls.handleMove
handleMove(pos, c) ==
    IF ~isDrawing THEN c ELSE [c EXCEPT !.current = pos]

\* a stroke is a drag when it is longer than this (1/100 pixel)
IsDrag(len) == len > 2000

\* useTouchControls.handleEnd
handleEnd(c) ==
    IF ~isDrawing \/ c.start = NoPoint \/ c.current = NoPoint
    THEN IF gameState.isRunning /\ ~gameState.gameOver THEN handleGameStart(c) ELSE c
    ELSE LET c1 == IF IsDrag(distance(c.start, c.current))
                   THEN handleWindGust(c.start, c.current, c)
                   ELSE IF gameState.isRunning /\ ~gameState.gameOver
                        THEN handleGameStart(c) ELSE c
         IN  [c1 EXCEPT !.pend = Append(c1.pend, Upd("draw", 0)),
                        !.start = NoPoint, !.current = NoPoint]

(***************************************************************************)
(* useGameLoop                                                             *)
(***************************************************************************)
\* the refs of the hook as constructed
IdleLoop == [running |-> FALSE, requested |-> FALSE, orphans |-> 0]

\* requestAnimationFrame(gameLoop) stored in animationFrameRef: a callback
\* the ref named before and that is still to come is named no longer
Requested(l) ==
    [l EXCEPT !.requested = TRUE,
              !.orphans = l.orphans + IF l.requested THEN 1 ELSE 0]

\* StartedLoop without the test of isRunningRef
StartedLoopUnguarded(l) == [Requested(l) EXCEPT !.running = TRUE]

\* startLoop
StartedLoop(l) ==
    IF ~l.running THEN [Requested(l) EXCEPT !.running = TRUE] ELSE l

\* StoppedLoop without the clearing of isRunningRef
StoppedLoopStillRunning(l) == [l EXCEPT !.requested = FALSE]

\* stopLoop: isRunningRef cleared, the requested frame cancelled
StoppedLoop(l) == [l EXCEPT !.running = FALSE, !.requested = FALSE]

\* no timestamps are kept / the page has just been loaded, no frame yet
NoClock == [on |-> FALSE, now |-> 0, last |-> 0, deltas |-> <<0, 0>>]
StartClock == [on |-> TRUE, now |-> ClockStart, last |-> 0, deltas |-> <<0, 0>>]

\* no record is kept of the calls / no call was made
NoLog == [on |-> FALSE, updates |-> 0, renders |-> 0]
EmptyLog == [on |-> TRUE, updates |-> 0, renders |-> 0]

(***************************************************************************)
(* Actions                                                                 *)
(***************************************************************************)
Init ==
    /\ canvas \in CanvasSizes
    /\ storedBest = 0
    /\ gameState = InitialGameState
    /\ isDrawing = FALSE
    /\ pending = << >>
    /\ drawStart = NoPoint
    /\ drawCurrent = NoPoint
    /\ bird = InitialBird
    /\ pipes = << >>
    /\ gusts = << >>
    /\ particles = NoParticles
    /\ nextPipeTime = 0
    /\ gameTime = 0
    /\ shake = 0
    /\ gameOverTriggered = FALSE
    /\ lastTimeSet = FALSE
    /\ overFx = NoFx
    /\ overTicks = 0
    /\ stale = 0
    /\ restarts = 0
    /\ loop = StartedLoop(IdleLoop)
    /\ frameLog \in {NoLog, EmptyLog}
    /\ audio \in AudioStates
    /\ clock \in {NoClock, StartClock}
    /\ sounds = << >>

\* the calls of update and render a step makes, where they are recorded
Logged(updates, renders) ==
    frameLog' = IF frameLog.on
                THEN [on |-> TRUE, updates |-> updates, renders |-> renders]
                ELSE frameLog

\* a callback may run before the queued updates are rendered, a few times
MayRun == pending = << >> \/ stale < MaxStale

Ran == stale' = IF pending = << >> THEN stale ELSE stale + 1

PointerDown(pos) ==
    /\ MayRun
    /\ gameState.gameOver => restarts < MaxRestarts
    /\ Store(handleStart(pos, Refs))
    /\ Ran
    /\ restarts' = IF gameState.gameOver THEN restarts + 1 ELSE restarts
    /\ Logged(0, 0)
    /\ UNCHANGED <<sounds, clock, audio, canvas, gameState, isDrawing, shake, lastTimeSet, storedBest,
                   loop>>

PointerMove(pos) ==
    /\ isDrawing
    /\ Store(handleMove(pos, Refs))
    /\ Logged(0, 0)
    /\ UNCHANGED <<sounds, clock, audio, canvas, gameState, isDrawing, shake, lastTimeSet, storedBest,
                   restarts, stale, loop>>

PointerUp ==
    /\ MayRun
    /\ Store(handleEnd(Refs))
    /\ Ran
    /\ Logged(0, 0)
    /\ UNCHANGED <<sounds, clock, audio, canvas, gameState, isDrawing, shake, lastTimeSet, storedBest,
                   restarts, loop>>

\* gameLoop of useGameLoop: deltaTime of a frame that comes elapsed ms after
\* the previous one
DeltaTime(elapsed) == IF lastTimeSet THEN elapsed ELSE 0

\* Accepted without the upper limit
AcceptedNoLimit(deltaTime) == deltaTime > 0

Accepted(deltaTime) == deltaTime > 0 /\ deltaTime < 100

\* update(deltaTime) while the game runs: what updateBird left (rb), then
\* updatePipes, as [bird, p]
BirdThenPipes(rb, deltaTime, rnd) ==
    [bird |-> rb.bird,
     p |-> updatePipes(pipes, nextPipeTime, rb.bird, deltaTime, rnd, rb.e,
                       gameState.gameOver)]

\* the refs and the queue after update(deltaTime) ran updateBird and
\* updatePipes (r), then updateParticles, updateGusts, updateWindEnergy
StoreTick(r, deltaTime) ==
    /\ bird' = r.bird
    /\ pipes' = r.p.pipes
    /\ nextPipeTime' = r.p.next
    /\ particles' = updateParticles(r.p.e.parts, deltaTime)
    /\ gusts' = updateGusts(gusts, deltaTime)
    /\ pending' = updateWindEnergy(r.p.e.pend, deltaTime, gameState.windEnergy)
    /\ shake' = r.p.e.shk
    /\ gameOverTriggered' = r.p.e.trig
    /\ overFx' = r.p.e.fx

\* update(deltaTime) of GameCanvas
Update(deltaTime, rnd) ==
    IF gameState.isRunning
    THEN /\ StoreTick(
                BirdThenPipes(
                    updateBird(bird, deltaTime, gusts, CANVAS_WIDTH, CANVAS_HEIGHT,
                               [Fx EXCEPT !.shk = updateScreenShake(shake, deltaTime)],
                               gameState.gameOver),
                    deltaTime, rnd),
                deltaTime)
         /\ gameTime' = gameTime + deltaTime
    ELSE /\ shake' = updateScreenShake(shake, deltaTime)
         /\ gameTime' = gameTime
         /\ UNCHANGED <<bird, pipes, nextPipeTime, particles, gusts, pending,
                        gameOverTriggered, overFx>>

\* deltaTime of the frame that comes elapsed ms after the previous callback:
\* currentTime - lastTimeRef.current where the timestamps are kept
FrameDelta(elapsed) ==
    IF clock.on
    THEN IF clock.last # 0 THEN clock.now + elapsed - clock.last ELSE 0
    ELSE DeltaTime(elapsed)

\* lastTimeRef.current kept when the frame is dropped
StoredLastTimeIfAccepted(last, currentTime, deltaTime) ==
    IF Accepted(deltaTime) THEN currentTime ELSE last

\* lastTimeRef.current = currentTime at the end of gameLoop
StoredLastTime(last, currentTime, deltaTime) == currentTime

\* the timestamps after a frame callback that ran its body, where kept
Clocked(currentTime, deltaTime) ==
    clock' = IF clock.on
             THEN [on |-> TRUE, now |-> currentTime,
                   last |-> StoredLastTime(clock.last, currentTime, deltaTime),
                   deltas |-> <<clock.deltas[2], deltaTime>>]
             ELSE clock

\* gameLoop past its guard: update for an accepted deltaTime, render, the
\* new lastTime and the request of the next frame
LoopBody(deltaTime, rnd, maxTicks) ==
    /\ IF Accepted(deltaTime)
       THEN /\ gameState.isRunning => (MayRun /\ gameTime \div deltaTime < maxTicks)
            /\ gameState.gameOver => overTicks < MaxOverTicks
            /\ Update(deltaTime, rnd)
            /\ overTicks' = IF gameState.gameOver THEN overTicks + 1 ELSE overTicks
            /\ IF gameState.isRunning THEN Ran ELSE UNCHANGED stale
            /\ Logged(1, 1)
       ELSE /\ Logged(0, 1)
            /\ UNCHANGED <<bird, pipes, nextPipeTime, particles, gusts, pending,
                           shake, gameOverTriggered, overFx, gameTime, overTicks,
                           stale>>
    /\ lastTimeSet' = TRUE
    /\ loop' = Requested([loop EXCEPT !.requested = FALSE])

\* the frame callback: gameLoop(currentTime)
Frame(elapsed, rnd, maxTicks) ==
    /\ loop.requested
    /\ IF ~loop.running
       THEN /\ loop' = [loop EXCEPT !.requested = FALSE]
            /\ clock' = IF clock.on
                        THEN [clock EXCEPT !.now = clock.now + elapsed]
                        ELSE clock
            /\ Logged(0, 0)
            /\ UNCHANGED <<bird, pipes, nextPipeTime, particles, gusts, pending,
                           shake, gameOverTriggered, overFx, gameTime, overTicks,
                           stale, lastTimeSet>>
       ELSE /\ LoopBody(FrameDelta(elapsed), rnd, maxTicks)
            /\ Clocked(clock.now + elapsed, FrameDelta(elapsed))
    /\ UNCHANGED <<sounds, audio, canvas, gameState, isDrawing, drawStart, drawCurrent,
                   storedBest, restarts>>

\* the "save best score" effect of useGameState runs after a render that
\* changed score or bestScore; the effect of useGameLoop runs after every
\* render, update and render being new callbacks: stopLoop, then startLoop
BestScoreEffectRuns(old, new) ==
    /\ <<old.score, old.bestScore>> # <<new.score, new.bestScore>>
    /\ new.score > new.bestScore

\* React renders the queued updates and runs the effects
Commit ==
    /\ pending # << >>
    /\ LET st == Next_State
       IN  /\ gameState' = st.gs
           /\ isDrawing' = st.drawing
           /\ IF BestScoreEffectRuns(gameState, st.gs)
              THEN /\ pending' = <<Upd("best", st.gs.score)>>
                   /\ storedBest' = st.gs.score
              ELSE /\ pending' = << >>
                   /\ storedBest' = storedBest
    /\ loop' = StartedLoop(StoppedLoop(loop))
    /\ Logged(0, 0)
    /\ UNCHANGED <<sounds, clock, audio, canvas, drawStart, drawCurrent, bird, pipes, gusts, particles,
                   nextPipeTime, gameTime, shake, gameOverTriggered, lastTimeSet,
                   overFx, overTicks, restarts, stale>>

\* Math.random() is drawn in the frames that spawn a pipe
Draws(elapsed) ==
    IF /\ Accepted(FrameDelta(elapsed))
       /\ gameState.isRunning /\ ~gameState.gameOver
       /\ SpawnDue(nextPipeTime - FrameDelta(elapsed))
    THEN RandomSamples ELSE {0}

Next ==
    \/ \E elapsed \in FrameElapsed : \E rnd \in Draws(elapsed) :
            Frame(elapsed, rnd, MaxTicks)
    \/ Commit
    \/ \E pos \in DownPoints : PointerDown(pos)
    \/ \E pos \in MovePoints : PointerMove(pos)
    \/ PointerUp

\* every operation, on the small canvas
InitShort == Init /\ canvas = SmallCanvas /\ frameLog = NoLog /\ audio = "ok" /\ clock = NoClock

Spec == InitShort /\ [][Next]_vars

\* one long run on the large canvas, every update rendered before the next
\* callback: frames, commits, the starting tap and flaps
Rendered == pending = << >>

LongFrame ==
    /\ Rendered
    /\ \E elapsed \in FrameElapsed : \E rnd \in Draws(elapsed) :
            Frame(elapsed, rnd, MaxLongTicks)

StartTap ==
    /\ Rendered
    /\ ~gameState.isRunning
    /\ \E pos \in DownPoints : PointerDown(pos)

FlapTap ==
    /\ Rendered
    /\ ~isDrawing
    /\ PointerUp

NextLong ==
    \/ LongFrame
    \/ Commit
    \/ StartTap
    \/ FlapTap

InitLong == Init /\ canvas = LargeCanvas /\ frameLog = NoLog /\ audio = "ok" /\ clock = NoClock

SpecLong == InitLong /\ [][NextLong]_vars

\* the long run, carried on until the first obstacle has left the canvas
ScrollFrame ==
    /\ Rendered
    /\ \E elapsed \in FrameElapsed : \E rnd \in Draws(elapsed) :
            Frame(elapsed, rnd, MaxScrollTicks)

NextScroll ==
    \/ ScrollFrame
    \/ Commit
    \/ StartTap
    \/ FlapTap

SpecScroll == InitLong /\ [][NextScroll]_vars

\* the long run, and after a run that scored a restart, which may come
\* before the update queued by the best-score effect is rendered
RestartTap ==
    /\ gameState.gameOver
    /\ gameState.score > 0
    /\ \E pos \in DownPoints : PointerDown(pos)

NextBest ==
    \/ LongFrame
    \/ Commit
    \/ StartTap
    \/ FlapTap
    \/ RestartTap

SpecBest == InitLong /\ [][NextBest]_vars

\* one run on the large canvas with gusts drawn from the bird toward a wall,
\* every update rendered before the next callback
WindFrame ==
    /\ Rendered
    /\ \E elapsed \in FrameElapsed : \E rnd \in Draws(elapsed) :
            Frame(elapsed, rnd, MaxWindTicks)

WindDown ==
    /\ Rendered
    /\ ~gameState.gameOver
    /\ Len(gusts) < MaxWindGusts
    /\ \E pos \in WindDownPoints : PointerDown(pos)

WindMove ==
    /\ isDrawing
    /\ \E pos \in WindMovePoints : PointerMove(pos)

WindUp ==
    /\ Rendered
    /\ isDrawing
    /\ PointerUp

NextWind ==
    \/ WindFrame
    \/ Commit
    \/ WindDown
    \/ WindMove
    \/ WindUp

SpecWind == InitLong /\ [][NextWind]_vars

\* one run on the large canvas with one gust at a time, followed until the
\* gust has worn off; the browser keeps calling the frame callback and React
\* keeps rendering the queued updates
GustFrame ==
    /\ Rendered
    /\ \E elapsed \in FrameElapsed : \E rnd \in Draws(elapsed) :
            Frame(elapsed, rnd, MaxGustTicks)

GustDown ==
    /\ Rendered
    /\ ~gameState.gameOver
    /\ gusts = << >>
    /\ \E pos \in WindDownPoints : PointerDown(pos)

GustMove ==
    /\ isDrawing
    /\ \E pos \in WindMovePoints : PointerMove(pos)

GustUp ==
    /\ Rendered
    /\ isDrawing
    /\ PointerUp

NextGust ==
    \/ GustFrame
    \/ Commit
    \/ GustDown
    \/ GustMove
    \/ GustUp
    \/ FlapTap

SpecGust == InitLong /\ [][NextGust]_vars

\* the steps of GustFrame that change something, by their guard and by what
\* they do to lastTimeRef and to the game time: the first frame, and an
\* accepted frame of a started run
FrameDue == Rendered /\ loop.requested /\ loop.running

FirstFrame == FrameDue /\ ~lastTimeSet /\ lastTimeSet' = TRUE

MoreTicks ==
    /\ gameTime \div 90 < MaxGustTicks
    /\ gameState.gameOver => overTicks < MaxOverTicks

Tick ==
    /\ FrameDue /\ lastTimeSet /\ gameState.isRunning /\ MoreTicks
    /\ gameTime' = gameTime + 90

SpecGustLive ==
    /\ SpecGust
    /\ WF_lastTimeSet(FirstFrame)
    /\ WF_gameTime(Tick)
    /\ WF_vars(Commit)

\* every operation on the small canvas, every update rendered before the
\* next callback, with the owner of the hook stopping and starting the loop
\* and the calls of update and render recorded
LoopFrame ==
    /\ Rendered
    /\ \E elapsed \in FrameElapsed : \E rnd \in Draws(elapsed) :
            Frame(elapsed, rnd, MaxTicks)

LoopDown ==
    /\ Rendered
    /\ \E pos \in DownPoints : PointerDown(pos)

LoopMove ==
    /\ isDrawing
    /\ \E pos \in MovePoints : PointerMove(pos)

LoopUp ==
    /\ Rendered
    /\ PointerUp

StopLoop ==
    /\ loop' = StoppedLoop(loop)
    /\ Logged(0, 0)
    /\ UNCHANGED <<sounds, clock, audio, canvas, gameState, isDrawing, pending, drawStart, drawCurrent,
                   bird, pipes, gusts, particles, nextPipeTime, gameTime, shake,
                   gameOverTriggered, lastTimeSet, storedBest, overFx, overTicks,
                   stale, restarts>>

StartLoop ==
    /\ loop' = StartedLoop(loop)
    /\ Logged(0, 0)
    /\ UNCHANGED <<sounds, clock, audio, canvas, gameState, isDrawing, pending, drawStart, drawCurrent,
                   bird, pipes, gusts, particles, nextPipeTime, gameTime, shake,
                   gameOverTriggered, lastTimeSet, storedBest, overFx, overTicks,
                   stale, restarts>>

NextLoop ==
    \/ LoopFrame
    \/ Commit
    \/ LoopDown
    \/ LoopMove
    \/ LoopUp
    \/ StopLoop
    \/ StartLoop

InitLoop == Init /\ canvas = SmallCanvas /\ frameLog = EmptyLog /\ audio = "ok" /\ clock = NoClock

SpecLoop == InitLoop /\ [][NextLoop]_vars

\* the effect of GameCanvas that follows a change of the canvas size: the
\* bird is put back where a bird starts on the canvas c and gets its radius
ResizedBird(b, c) ==
    [b EXCEPT !.x = (c.width * 100 * 125) \div 1000,
              !.y = (c.height * 100 * 5) \div 10,
              !.radius = Max(1500, (c.width * 100 * 25) \div 1000)]

\* the window is resized: useResponsiveCanvas sets the canvas size c, React
\* renders it together with the queued updates and runs the effects
Resize(c) ==
    /\ c # canvas
    /\ canvas' = c
    /\ bird' = ResizedBird(bird, c)
    /\ LET st == Next_State
       IN  /\ gameState' = st.gs
           /\ isDrawing' = st.drawing
           /\ IF BestScoreEffectRuns(gameState, st.gs)
              THEN /\ pending' = <<Upd("best", st.gs.score)>>
                   /\ storedBest' = st.gs.score
              ELSE /\ pending' = << >>
                   /\ storedBest' = storedBest
    /\ loop' = StartedLoop(StoppedLoop(loop))
    /\ Logged(0, 0)
    /\ UNCHANGED <<sounds, clock, audio, drawStart, drawCurrent, pipes, gusts, particles, nextPipeTime,
                   gameTime, shake, gameOverTriggered, lastTimeSet, overFx,
                   overTicks, restarts, stale>>

\* every operation on the large canvas of a window that is resized, every
\* update rendered before the next callback
ResizeFrame ==
    /\ Rendered
    /\ \E elapsed \in FrameElapsed : \E rnd \in Draws(elapsed) :
            Frame(elapsed, rnd, MaxResizeTicks)

ResizeDown ==
    /\ Rendered
    /\ \E pos \in DownPoints : PointerDown(pos)

ResizeMove ==
    /\ isDrawing
    /\ \E pos \in MovePoints : PointerMove(pos)

ResizeUp ==
    /\ Rendered
    /\ PointerUp

WindowResize ==
    /\ Rendered
    /\ \E c \in ResizeCanvases : Resize(c)

NextResize ==
    \/ ResizeFrame
    \/ Commit
    \/ ResizeDown
    \/ ResizeMove
    \/ ResizeUp
    \/ WindowResize

SpecResize == InitLong /\ [][NextResize]_vars

\* the Web Audio nodes throw at every sound: the long run on the large
\* canvas, and every pointer operation on the small one, every update
\* rendered before the next callback
AudioDown ==
    /\ Rendered
    /\ canvas = SmallCanvas
    /\ \E pos \in DownPoints : PointerDown(pos)

AudioMove ==
    /\ isDrawing
    /\ \E pos \in MovePoints : PointerMove(pos)

AudioUp ==
    /\ Rendered
    /\ isDrawing
    /\ PointerUp

NextAudio ==
    \/ LongFrame
    \/ Commit
    \/ StartTap
    \/ FlapTap
    \/ AudioDown
    \/ AudioMove
    \/ AudioUp

InitAudio == Init /\ frameLog = NoLog /\ audio = "faulty" /\ clock = NoClock

SpecAudio == InitAudio /\ [][NextAudio]_vars

(***************************************************************************)
(* The helpers createPipe and applyGustForce on sampled inputs: a bird at  *)
(* the height of the centre of the canvas, gusts of full power at the      *)
(* centre, obstacles spawned for the canvas at hand.                       *)
(***************************************************************************)
SampleGust(dir) ==
    [x |-> CANVAS_WIDTH \div 2, y |-> CANVAS_HEIGHT \div 2,
     direction |-> dir,
     magnitude |-> GUST_BASE_POWER * 100,
     radius |-> GUST_RADIUS,
     life |-> GUST_LIFE, maxLife |-> GUST_LIFE]

Rightward == [x |-> 1000, y |-> 0]
Upward == [x |-> 0, y |-> -1000]

GustSamples ==
    {<<SampleGust(Rightward)>>, <<SampleGust(Rightward), SampleGust(Upward)>>}

SampleBird(offset) ==
    [InitialBird EXCEPT !.x = CANVAS_WIDTH \div 2 + offset * 100]

InitSamples ==
    /\ canvas \in SampleCanvases
    /\ storedBest = 0
    /\ gameState = InitialGameState
    /\ isDrawing = FALSE
    /\ pending = << >>
    /\ drawStart = NoPoint
    /\ drawCurrent = NoPoint
    /\ bird \in {SampleBird(offset) : offset \in BirdOffsets}
    /\ pipes = << >>
    /\ gusts \in GustSamples
    /\ particles = NoParticles
    /\ nextPipeTime = 0
    /\ gameTime = 0
    /\ shake = 0
    /\ gameOverTriggered = FALSE
    /\ lastTimeSet = FALSE
    /\ overFx = NoFx
    /\ overTicks = 0
    /\ stale = 0
    /\ restarts = 0
    /\ loop = StartedLoop(IdleLoop)
    /\ frameLog = NoLog
    /\ audio = "ok"
    /\ clock = NoClock
    /\ sounds = << >>

\* gusts.forEach(applyGustForce) of updateBird
GustPush ==
    /\ Abs(bird.vx) + Abs(bird.vy) < MaxPushes * GUST_BASE_POWER * 50
    /\ bird' = ApplyGusts(bird, gusts)
    /\ UNCHANGED <<sounds, clock, audio, canvas, gameState, isDrawing, pending, drawStart, drawCurrent,
                   pipes, gusts, particles, nextPipeTime, gameTime, shake,
                   gameOverTriggered, lastTimeSet, storedBest, overFx, overTicks,
                   stale, restarts, loop, frameLog>>

\* the spawn step of updatePipes with the countdown run out
SpawnPipe(rnd) ==
    /\ Len(pipes) < MaxSpawns
    /\ pipes' = Spawned(pipes, 0, rnd)
    /\ UNCHANGED <<sounds, clock, audio, canvas, gameState, isDrawing, pending, drawStart, drawCurrent,
                   bird, gusts, particles, nextPipeTime, gameTime, shake,
                   gameOverTriggered, lastTimeSet, storedBest, overFx, overTicks,
                   stale, restarts, loop, frameLog>>

NextSamples ==
    \/ GustPush
    \/ \E rnd \in SpawnSamples : SpawnPipe(rnd)

SpecSamples == InitSamples /\ [][NextSamples]_vars

\* sampled inputs of checkCollision on the 400x300 canvas: the obstacle's
\* left edge (far right, touching the bird's right side, overlapping it by
\* 1/100 pixel, centred on the bird, overlapping and touching its left side)
PipeXSamples == {20000, 6500, 6499, 5000, -499, -500}

\* the bird's height below the upper stub's edge: intruding into the upper
\* stub, touching it, in the middle of the gap, touching the lower stub,
\* intruding into it
GapOffsets == {1499, 1500, 6000, 10500, 10501}

SamplePipe(x, rnd) == createPipe(x, CANVAS_HEIGHT, PIPE_WIDTH, PIPE_GAP, rnd)

InitCollide ==
    /\ canvas = LargeCanvas
    /\ storedBest = 0
    /\ gameState = [InitialGameState EXCEPT !.isRunning = TRUE]
    /\ isDrawing = FALSE
    /\ pending = << >>
    /\ drawStart = NoPoint
    /\ drawCurrent = NoPoint
    /\ \E x \in PipeXSamples, rnd \in SpawnSamples, dy \in GapOffsets :
          /\ pipes \in {<<SamplePipe(x, rnd)>>,
                        <<SamplePipe(CANVAS_WIDTH + 5000, rnd), SamplePipe(x, rnd)>>}
          /\ bird = [InitialBird EXCEPT !.y = SamplePipe(x, rnd).topHeight + dy]
    /\ gusts = << >>
    /\ particles = NoParticles
    /\ nextPipeTime = 2500
    /\ gameTime = 0
    /\ shake = 0
    /\ gameOverTriggered = FALSE
    /\ lastTimeSet = TRUE
    /\ overFx = NoFx
    /\ overTicks = 0
    /\ stale = 0
    /\ restarts = 0
    /\ loop = StartedLoop(IdleLoop)
    /\ frameLog = EmptyLog
    /\ audio = "ok"
    /\ clock = NoClock
    /\ sounds = << >>

\* the collision loop at the end of updatePipes, once for a sampled input
CollisionLoop ==
    /\ gameState.isRunning /\ ~gameState.gameOver
    /\ frameLog.updates = 0
    /\ LET r == CollisionCheck(bird, pipes, nextPipeTime, Fx)
       IN  /\ gameOverTriggered' = r.e.trig
           /\ pending' = r.e.pend
           /\ shake' = r.e.shk
           /\ particles' = r.e.parts
           /\ overFx' = r.e.fx
    /\ Logged(1, 0)
    /\ UNCHANGED <<sounds, clock, audio, canvas, gameState, isDrawing, drawStart, drawCurrent,
                   bird, pipes, gusts, nextPipeTime, gameTime, lastTimeSet,
                   storedBest, overTicks, stale, restarts, loop>>

NextCollide ==
    \/ CollisionLoop
    \/ Commit

SpecCollide == InitCollide /\ [][NextCollide]_vars

\* sampled strokes on the 800x600 canvas: no movement, 20 pixels, 21 pixels,
\* 380 to 390 pixels, 780 pixels and a diagonal of about 972 pixels
StrokeStartPoints ==
    {[x |-> 10, y |-> 300], [x |-> 400, y |-> 300], [x |-> 790, y |-> 10]}
StrokeEndPoints ==
    {[x |-> 10, y |-> 300], [x |-> 22, y |-> 316], [x |-> 10, y |-> 321],
     [x |-> 400, y |-> 300], [x |-> 790, y |-> 300], [x |-> 790, y |-> 590],
     [x |-> 400, y |-> 10]}

\* the energy rendered when the stroke ends (1/100)
EnergySamples == {10000, 7500, 1500, 500}

\* magnitude of the gust of a stroke in App.tsx (1/100 pixel per s)
GustMagnitudeApp(strokeLength) ==
    Min(strokeLength * 2, GUST_BASE_POWER * 100)

\* createGust of App.tsx and the push of its gust in handleMouseUp
createGustApp(start, end, c) ==
    LET strokeLength == distance(start, end)
        cost == GustCost(strokeLength, GustEnergy)
    IN  IF GustRejected(strokeLength, cost) THEN c
        ELSE Cued([c EXCEPT !.pend = Append(c.pend, Upd("debit", cost))],
                  [c EXCEPT !.pend = Append(c.pend, Upd("debit", cost)),
                            !.parts = createParticles(c.parts, "blue"),
                            !.gusts = Append(c.gusts,
                                [NewGust(start, end, strokeLength)
                                    EXCEPT !.magnitude = GustMagnitudeApp(strokeLength)])])

\* handleMouseUp of App.tsx
handleMouseUp(c) ==
    IF ~isDrawing \/ c.start = NoPoint \/ c.current = NoPoint THEN c
    ELSE [createGustApp(c.start, c.current, c)
             EXCEPT !.pend = Append(@, Upd("draw", 0)),
                    !.start = NoPoint, !.current = NoPoint]

InitStroke ==
    /\ canvas = DefaultCanvas
    /\ storedBest = 0
    /\ \E energy \in EnergySamples :
          gameState = [InitialGameState EXCEPT !.isRunning = TRUE,
                                               !.windEnergy = energy]
    /\ isDrawing = TRUE
    /\ pending = << >>
    /\ drawStart \in StrokeStartPoints
    /\ drawCurrent \in StrokeEndPoints
    /\ bird = InitialBird
    /\ pipes = << >>
    /\ gusts = << >>
    /\ particles = NoParticles
    /\ nextPipeTime = 2000
    /\ gameTime = 0
    /\ shake = 0
    /\ gameOverTriggered = FALSE
    /\ lastTimeSet = TRUE
    /\ overFx = NoFx
    /\ overTicks = 0
    /\ stale = 0
    /\ restarts = 0
    /\ loop = StartedLoop(IdleLoop)
    /\ frameLog = NoLog
    /\ audio = "ok"
    /\ clock = NoClock
    /\ sounds = << >>

\* the stroke ends in GameCanvas (useTouchControls.handleEnd)
StrokeUp ==
    /\ drawStart # NoPoint
    /\ PointerUp

\* the stroke ends in App.tsx
AppMouseUp ==
    /\ MayRun
    /\ drawStart # NoPoint
    /\ Store(handleMouseUp(Refs))
    /\ Ran
    /\ Logged(0, 0)
    /\ UNCHANGED <<sounds, clock, audio, canvas, gameState, isDrawing, shake, lastTimeSet, storedBest,
                   restarts, loop>>

NextStroke ==
    \/ StrokeUp
    \/ AppMouseUp
    \/ Commit

SpecStroke == InitStroke /\ [][NextStroke]_vars

\* the run with the frame timestamps kept: frames that come 0, 16, 90, 100 or
\* 150 ms after the previous one, commits, the starting tap and flaps
ClockElapsed == {0, 16, 90, 100, 150}

ClockFrame ==
    /\ Rendered
    /\ \E elapsed \in ClockElapsed : \E rnd \in Draws(elapsed) :
            /\ clock.now + elapsed <= ClockStart + MaxClockMs
            /\ Frame(elapsed, rnd, MaxClockTicks)

NextClock ==
    \/ ClockFrame
    \/ Commit
    \/ StartTap
    \/ FlapTap

InitClock ==
    Init /\ canvas = LargeCanvas /\ frameLog = EmptyLog /\ audio = "ok"
         /\ clock = StartClock

SpecClock == InitClock /\ [][NextClock]_vars

\* the oscillators of useAudio, whoever asks for the sounds
Others ==
    <<canvas, gameState, isDrawing, pending, drawStart, drawCurrent, bird,
      pipes, gusts, particles, nextPipeTime, gameTime, shake,
      gameOverTriggered, lastTimeSet, storedBest, overFx, overTicks,
      stale, restarts, loop, frameLog, audio, clock>>

\* a callback calls playSound
PlaySoundCall ==
    /\ Len(sounds) < MaxSounds
    /\ sounds' = IF playSound(audio) = "played"
                 THEN Append(sounds, NewOscillator)
                 ELSE sounds
    /\ UNCHANGED Others

\* the ended event of oscillator i runs cleanup
OscillatorEnded(i) ==
    /\ i \in 1..Len(sounds)
    /\ sounds[i].ending
    /\ \E o \in cleanup([sounds[i] EXCEPT !.ending = FALSE]) :
            sounds' = [sounds EXCEPT ![i] = o]
    /\ UNCHANGED Others

\* the timeout of oscillator i runs cleanup
CleanupTimeout(i) ==
    /\ i \in 1..Len(sounds)
    /\ sounds[i].timer
    /\ \E o \in cleanup([sounds[i] EXCEPT !.timer = FALSE]) :
            sounds' = [sounds EXCEPT ![i] = o]
    /\ UNCHANGED Others

\* a restart or the unmount calls stopAllSounds
StopAllSoundsCall ==
    /\ sounds # << >>
    /\ sounds' = stopAllSounds(sounds)
    /\ UNCHANGED Others

NextSound ==
    \/ PlaySoundCall
    \/ \E i \in 1..MaxSounds : OscillatorEnded(i)
    \/ \E i \in 1..MaxSounds : CleanupTimeout(i)
    \/ StopAllSoundsCall

InitSound ==
    Init /\ canvas = LargeCanvas /\ frameLog = NoLog /\ clock = NoClock

SpecSound == InitSound /\ [][NextSound]_vars

\* the browser runs every timeout that was set
SpecSoundLive ==
    SpecSound /\ \A i \in 1..MaxSounds : WF_sounds(CleanupTimeout(i))

(***************************************************************************)
(* Properties                                                              *)
(***************************************************************************)
\* what the game state will be once the queued updates are rendered
Effective == Next_State.gs

\* a restart command was handled in this step
RestartIssued == restarts' # restarts

\* C1: in every run (from the start or a restart to the next restart), over
\* any interleaving of frames, taps, drags and commits, the game-over sound,
\* the screen shake and the red particle burst are each emitted at most once.
GameOverCuesOnce ==
    /\ overFx.sound <= 1
    /\ overFx.shake <= 1
    /\ overFx.burst <= 1

\* C8: the game-over latch is one-way within a run: once the gameOver flag or
\* gameOverTriggeredRef is set, it stays set in every step that is not a
\* restart command; in particular a flap tap does not clear it.
LatchOneWay ==
    [][~RestartIssued =>
          /\ gameOverTriggered => gameOverTriggered'
          /\ Effective.gameOver => Effective'.gameOver]_vars

\* a frame of the game loop was handled in this step with the given verdict
DroppedFrame ==
    \E elapsed \in FrameElapsed, rnd \in RandomSamples :
        /\ DeltaTime(elapsed) <= 0 \/ DeltaTime(elapsed) >= 100
        /\ Frame(elapsed, rnd, MaxTicks)

TickedFrame ==
    \E elapsed \in FrameElapsed, rnd \in RandomSamples :
        /\ DeltaTime(elapsed) > 0 /\ DeltaTime(elapsed) < 100
        /\ Frame(elapsed, rnd, MaxTicks)

\* C2: a frame whose dt is <= 0 or >= 0.1 s (the first frame included) leaves
\* bird, obstacles, gusts, particles, energy, score, spawn countdown and game
\* time as they were.
DroppedFrameChangesNothing ==
    [][DroppedFrame =>
          UNCHANGED <<bird, pipes, gusts, particles, gameState, pending,
                      nextPipeTime, gameTime>>]_vars

\* a frame has been handled in an Active run with a gust alive, and no game
\* time has passed: every frame so far was dropped
DroppedFrameSeen ==
    /\ lastTimeSet
    /\ gameState.isRunning /\ ~gameState.gameOver
    /\ gameTime = 0
    /\ gusts # << >>

\* C3: wind energy is within [0, MAX_WIND_ENERGY] in every reachable state,
\* rendered or queued, also after gust creations that read an energy not yet
\* refreshed after a previous debit.
EnergyInRange ==
    /\ gameState.windEnergy >= 0 /\ gameState.windEnergy <= MAX_WIND_ENERGY * 100
    /\ Effective.windEnergy >= 0 /\ Effective.windEnergy <= MAX_WIND_ENERGY * 100

\* two debits are queued whose costs were both computed from the same
\* rendered energy and together exceed it
StaleDoubleDebit ==
    \E i, j \in 1..Len(pending) :
        /\ i < j
        /\ pending[i].k = "debit" /\ pending[j].k = "debit"
        /\ pending[i].v + pending[j].v > gameState.windEnergy

\* the stroke a pointer-up ends, and the cost createGust computes for it
StrokeEnds == isDrawing /\ drawStart # NoPoint /\ drawCurrent # NoPoint
                /\ drawStart' = NoPoint
StrokeLength == distance(drawStart, drawCurrent)
StrokeCost == Min((StrokeLength * GUST_COST_PER_PIXEL) \div 1000, gameState.windEnergy)

\* C4: a stroke shorter than 20 pixels, or whose computed cost
\* min(length * costPerPixel, energy read) is below 10, creates no gust and
\* leaves the energy unchanged.
RejectedGustChangesNothing ==
    [][(StrokeEnds /\ (StrokeLength < 2000 \/ StrokeCost < 1000)) =>
          /\ gusts' = gusts
          /\ Effective'.windEnergy = Effective.windEnergy]_vars

\* a drag longer than 20 pixels has just ended with less than 10 energy
\* rendered: nothing was debited, no gust burst and no flap came of it
RejectedGustSeen ==
    /\ isDrawing /\ drawStart = NoPoint
    /\ pending # << >> /\ pending[Len(pending)] = Upd("draw", 0)
    /\ gameState.windEnergy < 1000
    /\ \A i \in 1..Len(pending) : pending[i].k # "debit"
    /\ particles["blue"] # 500 /\ particles["gold"] # 500

\* C5: every successful gust creation lowers the energy by exactly
\* min(length * costPerPixel, energy available just before the creation).
GustDebitExact ==
    [][Len(gusts') = Len(gusts) + 1 =>
          Effective.windEnergy - Effective'.windEnergy
              = Min((StrokeLength * GUST_COST_PER_PIXEL) \div 1000,
                    Effective.windEnergy)]_vars

\* C7: a restart from Over puts the bird at its initial position with zero
\* velocity and rotation, sets score 0, energy MAX, gameOver false, the spawn
\* countdown to its start value and the game time to 0, and empties the
\* obstacles, gusts and particles; the snapshot depends on nothing else, so
\* any two restarts leave the same one.
RestartResets ==
    [][RestartIssued =>
          /\ bird' = InitialBird
          /\ Effective'.score = 0
          /\ Effective'.windEnergy = MAX_WIND_ENERGY * 100
          /\ ~Effective'.gameOver
          /\ nextPipeTime' = 2000
          /\ gameTime' = 0
          /\ pipes' = << >> /\ gusts' = << >> /\ particles' = NoParticles]_vars

\* a restart has just been handled in a run that had spent energy on gusts
RestartSeen ==
    /\ restarts > 0
    /\ pending # << >> /\ pending[Len(pending)].k = "restart"
    /\ gameState.gameOver
    /\ gameState.windEnergy < MAX_WIND_ENERGY * 100

\* C9: while the run is Idle or Over an accepted tick changes neither the
\* bird's position and velocity, nor an obstacle's x and passed flag, nor the
\* spawn countdown, nor the gusts and their remaining life, nor the energy.
IdleOverTickFrozen ==
    [][((~gameState.isRunning \/ gameState.gameOver) /\ TickedFrame) =>
          /\ <<bird'.x, bird'.y, bird'.vx, bird'.vy>> = <<bird.x, bird.y, bird.vx, bird.vy>>
          /\ Len(pipes') = Len(pipes)
          /\ \A i \in 1..Len(pipes) :
                pipes'[i].x = pipes[i].x /\ pipes'[i].passed = pipes[i].passed
          /\ nextPipeTime' = nextPipeTime
          /\ gusts' = gusts
          /\ Effective'.windEnergy = Effective.windEnergy]_vars

\* q is the obstacle p one step later: obstacles only scroll left, by less
\* than their width in a tick, and are more than a width apart
SamePipe(p, q) == q.topHeight = p.topHeight /\ q.x <= p.x /\ p.x - q.x < p.width

\* the obstacles whose passed flag goes from false to true in this step
Flipped ==
    {j \in 1..Len(pipes') :
        /\ pipes'[j].passed
        /\ \E i \in 1..Len(pipes) : SamePipe(pipes[i], pipes'[j]) /\ ~pipes[i].passed}

\* C6: each obstacle scores at most once: a passed flag never goes back to
\* false, and in every step of a run the score grows by exactly the number of
\* obstacles whose passed flag goes from false to true (one when one flips,
\* nothing in the later ticks).
ScoresOnce ==
    [][~RestartIssued =>
          /\ \A i \in 1..Len(pipes), j \in 1..Len(pipes') :
                (SamePipe(pipes[i], pipes'[j]) /\ pipes[i].passed) => pipes'[j].passed
          /\ Effective'.score - Effective.score = Cardinality(Flipped)]_vars

\* an obstacle was passed at least one tick ago and the score is still 1
PassedPipeKept ==
    /\ Effective.score = 1
    /\ \E i \in 1..Len(pipes) :
          /\ pipes[i].passed
          /\ pipes[i].x + pipes[i].width + Scale(PIPE_SPEED, 90, 1000) < bird.x

\* C10: at the end of every accepted tick of an Active run, if the bird is
\* above or below the playfield or intersects an obstacle of the active set,
\* game over has been triggered and the bird's vx and vy are zero.
TerminalNeverMissed ==
    [][(/\ gameState.isRunning /\ ~gameState.gameOver
        /\ gameTime' > gameTime
        /\ \/ bird'.y < bird'.radius
           \/ bird'.y > CANVAS_HEIGHT - bird'.radius
           \/ \E i \in 1..Len(pipes') : checkCollision(bird', pipes'[i]))
          => (gameOverTriggered' /\ bird'.vx = 0 /\ bird'.vy = 0)]_vars

TopHeightInRange ==
    \A i \in 1..Len(pipes) :
        /\ pipes[i].topHeight >= (CANVAS_HEIGHT * 15) \div 100
        /\ pipes[i].topHeight
              <= CANVAS_HEIGHT - PIPE_GAP - (CANVAS_HEIGHT * 15) \div 100

\* what one gust adds to the velocity along its direction in a tick of
\* deltaTime ms when the force is scaled by the step, 0 outside its radius
ScaledForce(b, gust, deltaTime) ==
    IF Within(Scale(b.x - gust.x, 1, 10), Scale(b.y - gust.y, 1, 10),
              gust.radius \div 10)
    THEN Scale(Scale(gust.magnitude,
                     Influence(Scale(b.x - gust.x, 1, 10),
                               Scale(b.y - gust.y, 1, 10), gust.radius \div 10),
                     1000),
               deltaTime, 1000)
    ELSE 0

RECURSIVE ScaledGain(_, _, _, _)
ScaledGain(b, gs, deltaTime, axis) ==
    IF gs = << >> THEN 0
    ELSE Scale(Head(gs).direction[axis], ScaledForce(b, Head(gs), deltaTime), 1000)
            + ScaledGain(b, Tail(gs), deltaTime, axis)

\* C13: in a tick of step dt the gusts change the bird's velocity by the sum
\* of direction * magnitude * (1 - (d / radius)^2) * dt over the gusts whose
\* origin is nearer than their radius, and by nothing for the others.
GustForceScaledByStep ==
    [][GustPush =>
          \E deltaTime \in StepSamples :
              /\ bird'.vx - bird.vx = ScaledGain(bird, gusts, deltaTime, "x")
              /\ bird'.vy - bird.vy = ScaledGain(bird, gusts, deltaTime, "y")]_vars

\* an accepted tick of an Active run was handled in this step
ActiveTick ==
    /\ gameState.isRunning /\ ~gameState.gameOver
    /\ gameTime' > gameTime

\* where the tick takes the bird before the horizontal clamp
Unclamped ==
    Integrated(ApplyGusts(Gravitated(bird, gameTime' - gameTime), gusts),
               gameTime' - gameTime)

OnRightWall ==
    /\ bird.x = CANVAS_WIDTH - bird.radius /\ bird.vx = 0
    /\ gameState.isRunning /\ ~gameOverTriggered

\* C15: bestScore is a high-water mark: over scoring ticks, game-overs,
\* restarts and commits it never decreases, rendered or queued, and after a
\* commit (render and best-score effect) it is at least the score.
BestScoreHighWater ==
    [][/\ gameState'.bestScore >= gameState.bestScore
       /\ Effective'.bestScore >= Effective.bestScore
       /\ Commit => Effective'.bestScore >= Effective'.score]_vars

\* the best-score effect runs in this step
BestScoreWritten == Commit /\ BestScoreEffectRuns(gameState, gameState')

\* C16: the best score is written to localStorage only when the score is
\* strictly above the stored best, and the value written is that score; the
\* stored value never decreases.
StoredOnlyNewBest ==
    [][/\ BestScoreWritten =>
             (gameState'.score > storedBest /\ storedBest' = gameState'.score)
       /\ storedBest' >= storedBest]_vars

\* the frame callback ran in this step
FrameRan ==
    \E elapsed \in FrameElapsed, rnd \in RandomSamples :
        Frame(elapsed, rnd, MaxTicks)

\* C17: while the loop is not cancelled every frame callback calls render
\* exactly once, in Idle, Active and Over, its dt accepted or not; bird,
\* obstacles, gusts and energy are updated only when the run is Active.
RendersEveryFrame ==
    [][(loop.running /\ FrameRan) =>
          /\ frameLog'.renders = 1
          /\ ~(gameState.isRunning /\ ~gameState.gameOver) =>
                /\ UNCHANGED <<bird, pipes, gusts>>
                /\ Effective'.windEnergy = Effective.windEnergy]_vars

\* C18: stopLoop leaves the loop stopped with no frame requested, whatever
\* the state it is called in, and while the loop is stopped no step calls
\* update or render, until startLoop is called again.
StopLoopEffective ==
    [][/\ StopLoop => (~loop'.running /\ ~loop'.requested)
       /\ ~loop.running => (frameLog'.updates = 0 /\ frameLog'.renders = 0)
       /\ (~loop.running /\ ~StartLoop /\ ~Commit) => ~loop'.running]_vars

\* the loop was stopped in the middle of an Active run and a pointer event
\* has been handled since
StoppedMidRun ==
    /\ ~loop.running
    /\ gameTime > 0
    /\ gameState.isRunning /\ ~gameState.gameOver
    /\ isDrawing

\* the isDrawing the next render will show
EffectiveDrawing == Next_State.drawing

\* C19: a pointer-up that ends a Drawing gesture emits one command chosen
\* by the displacement: below 20 a flap (and no gust), from 20 on (20
\* included) a gust-creation request with the start and end points (and no
\* flap); afterwards isDrawing is false and both points are cleared.
GestureEndsInOneCommand ==
    [][StrokeEnds =>
          /\ IF StrokeLength < 2000
             THEN /\ bird'.vy = FLAP_POWER * 100
                  /\ particles'["gold"] = 500
                  /\ gusts' = gusts
             ELSE /\ bird' = bird
                  /\ IF StrokeCost >= 1000
                     THEN /\ Len(gusts') = Len(gusts) + 1
                          /\ gusts'[Len(gusts')].x = drawStart.x * 100
                          /\ gusts'[Len(gusts')].y = drawStart.y * 100
                          /\ gusts'[Len(gusts')].direction
                                = normalize([x |-> drawCurrent.x - drawStart.x,
                                             y |-> drawCurrent.y - drawStart.y])
                     ELSE gusts' = gusts
          /\ ~EffectiveDrawing'
          /\ drawStart' = NoPoint /\ drawCurrent' = NoPoint]_vars

\* a pointer-down was handled in this step
PointerWentDown == \E pos \in DownPoints : PointerDown(pos)

\* C20: a pointer-down received while the run is Idle or Over is handled as
\* the start or restart command and does not enter Drawing: the run is
\* (re)started, isDrawing is left as it was (false stays false) and no draw
\* point is recorded.
TapNeverDraws ==
    [][(PointerWentDown /\ (~gameState.isRunning \/ gameState.gameOver)) =>
          /\ Effective'.isRunning /\ ~Effective'.gameOver
          /\ EffectiveDrawing' = EffectiveDrawing
          /\ ~isDrawing => ~EffectiveDrawing'
          /\ UNCHANGED <<drawStart, drawCurrent>>]_vars

\* the starting tap has just been handled: the run is to start, the bird
\* flaps, nothing is being drawn
StartTapHandled ==
    /\ ~gameState.isRunning
    /\ pending = <<Upd("run", 0)>>
    /\ bird.vy = FLAP_POWER * 100
    /\ ~isDrawing /\ drawStart = NoPoint /\ drawCurrent = NoPoint

\* the run state a game state shows
RunState(gs) ==
    IF ~gs.isRunning THEN "Idle" ELSE IF gs.gameOver THEN "Over" ELSE "Active"

\* the moves of the run state: none, the first tap, the end of a run, a
\* restart
RunMoves ==
    {<<"Idle", "Idle">>, <<"Active", "Active">>, <<"Over", "Over">>,
     <<"Idle", "Active">>, <<"Active", "Over">>, <<"Over", "Active">>}

\* C21: the run state, rendered or queued, moves only from Idle to Active,
\* from Active to Over (in a step that triggers the game over, the bird out
\* of the field or on an obstacle) and from Over to Active (by a restart
\* command); isRunning never goes back to false, gameOver implies isRunning,
\* and a restart lands in Active with gameOver false.
RunStateMoves ==
    [][/\ <<RunState(gameState), RunState(gameState')>> \in RunMoves
       /\ <<RunState(Effective), RunState(Effective')>> \in RunMoves
       /\ gameState.isRunning => gameState'.isRunning
       /\ Effective.isRunning => Effective'.isRunning
       /\ gameState'.gameOver => gameState'.isRunning
       /\ Effective'.gameOver => Effective'.isRunning
       /\ (RunState(Effective) = "Active" /\ RunState(Effective') = "Over")
             => /\ gameOverTriggered'
                /\ OutOfBounds(bird', CANVAS_HEIGHT) \/ AnyCollision(bird', pipes')
       /\ (RunState(Effective) = "Over" /\ RunState(Effective') = "Active")
             => RestartIssued
       /\ RestartIssued => RunState(Effective') = "Active"]_vars

\* the run that followed a restart is ticking
RestartedRunTicks ==
    /\ restarts > 0
    /\ RunState(gameState) = "Active"
    /\ pending = << >>
    /\ gameTime > 0

\* C22: within a run no step other than a restart changes the bird's radius
\* (not a tick, a flap, a gust, nor a resize of the canvas), and no step other
\* than an accepted tick or a restart changes the bird's position.
RadiusFixed ==
    [][(gameState.isRunning /\ ~RestartIssued) =>
          /\ bird'.radius = bird.radius
          /\ gameTime' = gameTime => (bird'.x = bird.x /\ bird'.y = bird.y)]_vars

\* C23: with no gust alive and no flap, a bird in an Active run that has no
\* horizontal and no upward velocity (vx = 0, vy = 0 or already falling) gets
\* a strictly larger vy and a strictly larger y in every accepted tick, keeps
\* vx = 0 and its x, until the tick that takes it out of the field (which
\* stops it).
FallsMonotonically ==
    [][(ActiveTick /\ gusts = << >> /\ bird.vx = 0 /\ bird.vy >= 0) =>
          /\ bird'.y > bird.y
          /\ bird'.x = bird.x /\ bird'.vx = 0
          /\ ~OutOfBounds(bird', CANVAS_HEIGHT) => bird'.vy > bird.vy]_vars

\* the bird has been falling for some ticks and is below where it started,
\* still in the field
FallingBird ==
    /\ gameState.isRunning /\ ~gameOverTriggered
    /\ bird.vy > 3 * ((GRAVITY * 90) \div 10)
    /\ bird.y > InitialBird.y
    /\ bird.x = InitialBird.x /\ bird.vx = 0

\* a pointer-up was handled in this step
PointerWentUp == PointerUp

\* the step a tick of dt ms leaves in the refs that updatePipes, updateGusts
\* and updateGameTime write after a sound was asked for
TickCompleted ==
    /\ nextPipeTime' = Rearmed(nextPipeTime - (gameTime' - gameTime))
    /\ gusts' = updateGusts(gusts, gameTime' - gameTime)
    /\ gameTime' > gameTime

\* C24: when the audio nodes throw, playSound catches the exception and the
\* callback that asked for the sound makes all its remaining updates: a flap
\* still bursts its gold particles (and the first tap starts the run, the end
\* of a gesture clears it), a created gust is still pushed with its blue
\* burst, a game over still shakes the screen and bursts red, a scored pipe
\* still bursts green, and the tick goes on to the spawn countdown, the gusts
\* and the game time.
CueFailureHarmless ==
    [][audio = "faulty" =>
          /\ (PointerWentDown /\ ~gameState.isRunning /\ ~gameState.gameOver)
                => /\ Effective'.isRunning
                   /\ bird'.vy = FLAP_POWER * 100
                   /\ particles'["gold"] = 500
          /\ (PointerWentUp /\ gameState.isRunning /\ ~gameState.gameOver
                /\ (~isDrawing \/ drawStart = NoPoint \/ drawCurrent = NoPoint
                       \/ StrokeLength < 2000))
                => /\ bird'.vy = FLAP_POWER * 100
                   /\ particles'["gold"] = 500
          /\ (StrokeEnds /\ StrokeLength > 2000 /\ StrokeCost >= 1000)
                => /\ Len(gusts') = Len(gusts) + 1
                   /\ particles'["blue"] = 500
                   /\ Effective'.windEnergy < Effective.windEnergy
          /\ StrokeEnds => (~EffectiveDrawing' /\ drawCurrent' = NoPoint)
          /\ (gameOverTriggered' /\ ~gameOverTriggered)
                => /\ Effective'.gameOver
                   /\ shake' = 1500
                   /\ particles'["red"] = 500 - (gameTime' - gameTime)
                   /\ overFx'.shake = overFx.shake + 1
                   /\ overFx'.burst = overFx.burst + 1
                   /\ TickCompleted
          /\ Effective'.score > Effective.score
                => /\ particles'["green"] = 500 - (gameTime' - gameTime)
                   /\ TickCompleted]_vars

\* with the audio nodes throwing, a run has flapped, scored and ended
CuesFailed ==
    /\ audio = "faulty"
    /\ gameState.score > 0
    /\ gameState.gameOver
    /\ particles["red"] > 0

\* C25: every accepted tick of an Active run sets the energy to
\* min(MAX_WIND_ENERGY, energy + WIND_REGEN_RATE * dt), whatever the energy
\* was; so from tick to tick the energy does not decrease while no gust is
\* created.
EnergyRegenerates ==
    [][ActiveTick =>
          /\ Effective'.windEnergy
                = Regenerated(Effective.windEnergy, gameTime' - gameTime)
          /\ Effective'.windEnergy >= Effective.windEnergy]_vars

\* the obstacles of ps that stand where an obstacle is spawned, not passed,
\* their entrance animation not begun
JustSpawned(ps) ==
    {j \in 1..Len(ps) :
        /\ ps[j].x = CANVAS_WIDTH + 5000
        /\ ps[j].animationOffset = 0
        /\ ~ps[j].passed}

\* C26: every accepted tick of an Active run takes dt off the spawn
\* countdown; exactly when that brings it to zero or below, one obstacle is
\* spawned in the tick (the last of the list, not passed, entrance progress
\* 0, just past the right edge at canvas width + 50) and the countdown is
\* set to the spawn interval of 2.5 s; otherwise none is spawned; the
\* countdown is positive at the end of the tick.
SpawnCountdown ==
    [][ActiveTick =>
          /\ IF nextPipeTime - (gameTime' - gameTime) <= 0
             THEN /\ JustSpawned(pipes') = {Len(pipes')}
                  /\ nextPipeTime' = 2500
             ELSE /\ JustSpawned(pipes') = {}
                  /\ nextPipeTime' = nextPipeTime - (gameTime' - gameTime)
          /\ nextPipeTime' > 0]_vars

\* the second obstacle has been spawned and the countdown runs again
SecondCountdownRuns ==
    /\ Len(pipes) = 2
    /\ nextPipeTime > 0 /\ nextPipeTime < 2500
    /\ gameState.isRunning /\ ~gameState.gameOver

\* how far an obstacle scrolls in the tick of this step
ScrollStep == Scale(PIPE_SPEED, gameTime' - gameTime, 1000)

\* C27: in every accepted tick of an Active run each obstacle's x decreases
\* by PIPE_SPEED * dt, which is positive; at the end of the tick no obstacle
\* with x + width < 0 is in the list, every obstacle with x + width > 0 is
\* still in it, and the list holds nothing but the scrolled obstacles and the
\* one just spawned; outside such ticks and restarts the obstacles do not
\* move.
ScrollAndPrune ==
    [][/\ ActiveTick =>
             /\ ScrollStep > 0
             /\ \A i \in 1..Len(pipes) :
                   pipes[i].x - ScrollStep + pipes[i].width > 0
                      => \E j \in 1..Len(pipes') :
                            /\ pipes'[j].x = pipes[i].x - ScrollStep
                            /\ pipes'[j].topHeight = pipes[i].topHeight
             /\ \A j \in 1..Len(pipes') :
                   /\ pipes'[j].x + pipes'[j].width >= 0
                   /\ \/ j \in JustSpawned(pipes')
                      \/ \E i \in 1..Len(pipes) :
                            /\ pipes'[j].x = pipes[i].x - ScrollStep
                            /\ pipes'[j].topHeight = pipes[i].topHeight
       /\ (~ActiveTick /\ ~RestartIssued) => pipes' = pipes]_vars

\* the first obstacle has left the canvas and is gone, the second scrolls on
ObstaclePruned ==
    /\ Len(pipes) = 1
    /\ gameTime > 5000
    /\ pipes[1].x < CANVAS_WIDTH
    /\ gameState.isRunning /\ ~gameState.gameOver

\* g and h are one gust, whatever life it has left
SameGust(g, h) == [g EXCEPT !.life = 0] = [h EXCEPT !.life = 0]

\* update(deltaTime) ran updateGusts in this step
GustTick == gameState.isRunning /\ gameTime' > gameTime

\* C28: a gust keeps its origin, direction, magnitude and radius, and its
\* life never grows: every gust on the list after a step has life left and is
\* either the one just created or a gust of before with no more life; a tick
\* takes dt off every gust and drops, in that tick, each one that is left with
\* zero or less, and with no gust on the list a tick changes the velocity by
\* gravity and drag alone; and while accepted ticks keep coming every gust is
\* gone at some point.
GustsWearOff ==
    /\ [][/\ \A j \in 1..Len(gusts') :
                /\ gusts'[j].life > 0
                /\ \/ \E i \in 1..Len(gusts) :
                         /\ SameGust(gusts[i], gusts'[j])
                         /\ gusts'[j].life <= gusts[i].life
                   \/ /\ j = Len(gusts') /\ Len(gusts') = Len(gusts) + 1
                      /\ gusts'[j].life = GUST_LIFE
          /\ GustTick =>
                /\ Len(gusts')
                     = Cardinality({i \in 1..Len(gusts) :
                                       gusts[i].life - (gameTime' - gameTime) > 0})
                /\ \A j \in 1..Len(gusts') : \E i \in 1..Len(gusts) :
                      /\ SameGust(gusts[i], gusts'[j])
                      /\ gusts'[j].life = gusts[i].life - (gameTime' - gameTime)
          /\ (ActiveTick /\ gusts = << >> /\ ~OutOfBounds(bird', CANVAS_HEIGHT)) =>
                /\ bird'.vy = bird.vy + (GRAVITY * (gameTime' - gameTime)) \div 10
                /\ bird'.vx \in {0, Scale(bird.vx, 98, 100)}]_vars
    /\ [](gusts # << >> => <>(gusts = << >> \/ ~MoreTicks))

\* a gust has worn off in a run that goes on: the energy it cost is not yet
\* regenerated
GustWornOff ==
    /\ gusts = << >>
    /\ gameState.isRunning /\ ~gameState.gameOver
    /\ gameTime >= GUST_LIFE
    /\ gameState.windEnergy > 9000 /\ gameState.windEnergy < 10000

\* a tap arrives in this step: the tap that starts the run, or a pointer-up
\* of a started run that ends no stroke or one shorter than 20 pixels
TapArrives ==
    \/ PointerWentDown /\ ~gameState.isRunning /\ ~gameState.gameOver
    \/ /\ PointerWentUp /\ gameState.isRunning
       /\ \/ ~isDrawing \/ drawStart = NoPoint \/ drawCurrent = NoPoint
          \/ StrokeLength < 2000

\* C29: a flap sets the bird's vy to FLAP_POWER whatever it was (so a second
\* flap changes nothing more) and leaves x, y, vx, radius, the obstacles, the
\* gusts, the energy and the score as they are; when the run is Over, the
\* game over rendered or already triggered and queued, a tap does nothing to
\* the bird.
FlapExact ==
    [][TapArrives =>
          IF gameState.gameOver \/ Effective.gameOver
          THEN bird' = bird
          ELSE /\ bird' = [bird EXCEPT !.vy = FLAP_POWER * 100]
               /\ UNCHANGED <<pipes, gusts>>
               /\ Effective'.windEnergy = Effective.windEnergy
               /\ Effective'.score = Effective.score]_vars

\* the bird's bounding square and the obstacle overlap horizontally
OverlapsAcross(b, pipe) ==
    b.x + b.radius > pipe.x /\ b.x - b.radius < pipe.x + pipe.width

\* the bird's vertical extent reaches into the upper or the lower stub
IntrudesStub(b, pipe) ==
    b.y - b.radius < pipe.topHeight \/ b.y + b.radius > pipe.bottomY

\* the bird's square only touches the obstacle's side or a stub's edge
TouchesEdge(b, pipe) ==
    \/ b.x + b.radius = pipe.x
    \/ b.x - b.radius = pipe.x + pipe.width
    \/ /\ b.y - b.radius >= pipe.topHeight /\ b.y + b.radius <= pipe.bottomY
       /\ (b.y - b.radius = pipe.topHeight \/ b.y + b.radius = pipe.bottomY)

\* the bird's square lies within the gap, away from both stubs
InsideGap(b, pipe) ==
    b.y - b.radius > pipe.topHeight /\ b.y + b.radius < pipe.bottomY

\* C30: the collision loop ends the run exactly when, for some obstacle, the
\* bird's bounding square overlaps it horizontally with strict inequalities
\* and the bird's vertical extent intrudes into a stub; a bird that only
\* touches an edge of every obstacle, or is inside the gap of each, does not
\* collide.
CollidesWhenOverlapping ==
    [][CollisionLoop =>
          /\ gameOverTriggered' <=>
                \E i \in 1..Len(pipes) :
                    OverlapsAcross(bird, pipes[i]) /\ IntrudesStub(bird, pipes[i])
          /\ (\A i \in 1..Len(pipes) :
                  TouchesEdge(bird, pipes[i]) \/ InsideGap(bird, pipes[i]))
                => ~gameOverTriggered']_vars

\* the loop has run on a bird whose right side touches an obstacle's left
\* edge at a height that is inside a stub, and the run goes on
TouchingBirdPasses ==
    /\ frameLog.updates = 1 /\ ~gameOverTriggered
    /\ \E i \in 1..Len(pipes) :
          /\ bird.x + bird.radius = pipes[i].x
          /\ IntrudesStub(bird, pipes[i])

\* the gust the step appended
CreatedGust == gusts'[Len(gusts')]

\* d (1/1000) points from start to end and has length one, to the rounding
UnitAlong(d, start, end) ==
    /\ d # [x |-> 0, y |-> 0]
    /\ d.x * d.x + d.y * d.y >= 998 * 998
    /\ d.x * d.x + d.y * d.y <= 1002 * 1002
    /\ d.x * (end.x - start.x) >= 0 /\ d.y * (end.y - start.y) >= 0
    /\ Abs(d.x * (end.y - start.y) - d.y * (end.x - start.x))
          <= Abs(end.x - start.x) + Abs(end.y - start.y)

\* C31: every gust that is created, on whichever code path, has the
\* magnitude min(strokeLength * strokeToForceRatio, GUST_BASE_POWER) for the
\* one ratio, so never more than the cap, and its direction is the unit
\* vector from the stroke's start to its end, never the zero vector.
GustMagnitudeOneRatio ==
    [][Len(gusts') = Len(gusts) + 1 =>
          /\ StrokeLength >= 2000
          /\ CreatedGust.magnitude =
                Min((StrokeLength * strokeToForceRatio) \div 10,
                    GUST_BASE_POWER * 100)
          /\ CreatedGust.magnitude <= GUST_BASE_POWER * 100
          /\ UnitAlong(CreatedGust.direction, drawStart, drawCurrent)]_vars

\* a frame callback ran its body in this step, elapsed ms after the previous
\* callback
ClockedFrame(elapsed) ==
    /\ loop.requested /\ loop.running
    /\ clock.on /\ clock'.now = clock.now + elapsed
    /\ clock'.deltas # clock.deltas \/ clock'.last # clock.last \/ frameLog'.renders = 1

\* the previous frame callback dropped its frame
DroppedBefore == clock.last # 0 /\ ~Accepted(clock.deltas[2])

\* C32: the last-frame timestamp is advanced by every frame, accepted or
\* dropped; the frame that comes less than 100 ms after a dropped frame is
\* accepted with its own elapsed time as deltaTime, and a started run is
\* advanced by that time only; no frame advances the simulation by the time
\* of a dropped frame.
DroppedFrameDoesNotStall ==
    [][\A elapsed \in ClockElapsed :
          ClockedFrame(elapsed) =>
             /\ clock'.last = clock'.now
             /\ (DroppedBefore /\ elapsed > 0 /\ elapsed < 100) =>
                   /\ clock'.deltas[2] = elapsed
                   /\ frameLog'.updates = 1
                   /\ gameState.isRunning => gameTime' = gameTime + elapsed
             /\ gameTime' - gameTime \in {0, elapsed}
             /\ gameTime' - gameTime < 100]_vars

\* a frame of 16 ms was accepted right after a dropped frame of 150 ms and
\* advanced the started run by 16 ms
AcceptedAfterDropped ==
    /\ clock.on /\ clock.deltas = <<150, 16>>
    /\ frameLog.updates = 1
    /\ gameState.isRunning /\ gameTime = 16

\* no obstacle is removed, moved or marked as passed in this step
PipesFrozen ==
    /\ Len(pipes') >= Len(pipes)
    /\ \A i \in 1..Len(pipes) :
          pipes'[i].x = pipes[i].x /\ pipes'[i].passed = pipes[i].passed

\* handleGameOver has fired before the step, or fires in it from updateBird
\* (the bird has left the canvas), and no restart clears it
GameOverFired ==
    /\ gameOverTriggered'
    /\ gameOverTriggered \/ OutOfBounds(bird', CANVAS_HEIGHT)

\* C33: once handleGameOver has fired, in the rest of that tick and in every
\* step until the restart, the score does not change and no obstacle's x or
\* passed flag changes.
ScoreFrozenOnceOver ==
    [][GameOverFired =>
          /\ Effective'.score = Effective.score
          /\ PipesFrozen]_vars

\* the run is rendered Idle or Over and no update is waiting to be rendered
IdleOrOver ==
    /\ pending = << >>
    /\ ~gameState.isRunning \/ gameState.gameOver

\* C34: while the run is Idle or Over no gust is created and no energy is
\* debited; a drag that started in the Active run and is released after the
\* game over adds no gust and leaves the energy as it is.
NoGustOutsideRun ==
    [][IdleOrOver =>
          /\ Len(gusts') <= Len(gusts)
          /\ Effective'.windEnergy >= Effective.windEnergy]_vars

\* the pointer goes up with no stroke open and none queued to open: the
\* pointer-down of this tap was handed on as a start or restart command
TapAlreadyHandled ==
    /\ PointerWentUp
    /\ drawStart = NoPoint /\ ~isDrawing /\ ~EffectiveDrawing

\* C35: a pointer-down followed by a pointer-up without movement gives one
\* command; the pointer-up of the tap whose pointer-down started or
\* restarted the run calls the tap handler no second time: no flap, no cue.
OneCommandPerTap ==
    [][TapAlreadyHandled =>
          /\ bird' = bird
          /\ particles' = particles
          /\ gameOverTriggered' = gameOverTriggered]_vars

\* the obstacles of the list that have not been passed
RECURSIVE Unpassed(_)
Unpassed(ps) ==
    IF ps = << >> THEN 0
    ELSE (IF Head(ps).passed THEN 0 ELSE 1) + Unpassed(Tail(ps))

\* the score once rendered, and the obstacles still to be passed
Accounted == Effective.score + Unpassed(pipes)

\* obstacles spawned in this step: a tick re-arms the spawn countdown
SpawnedNow ==
    IF gameTime' > gameTime /\ nextPipeTime' > nextPipeTime THEN 1 ELSE 0

\* C36: the obstacles spawned since the start or the last restart are the
\* score plus the active obstacles not yet passed: the sum starts at zero,
\* goes back to zero at a restart, and every other step adds the obstacles
\* it spawns to it; so an obstacle leaves the list only passed and scored.
ScoreAccounting ==
    [][Accounted' = IF RestartIssued THEN 0 ELSE Accounted + SpawnedNow]_vars

\* the first obstacle was passed, scored and pruned, the second is ahead
FirstObstacleAccounted ==
    /\ Effective.score = 1 /\ gameState.score = 1
    /\ Len(pipes) = 1 /\ ~pipes[1].passed

\* frame callbacks scheduled and neither run nor cancelled
PendingFrames(l) == (IF l.requested THEN 1 ELSE 0) + l.orphans

\* C37: at most one frame callback of the loop is pending after every step
\* (startLoop, stopLoop, frame callbacks, the re-run of the effect at a
\* commit); startLoop while the loop runs schedules nothing; and no step
\* advances the simulation more than once.
SingleFramePending ==
    [][/\ PendingFrames(loop') <= 1
       /\ (StartLoop /\ loop.running) => loop' = loop
       /\ Commit => PendingFrames(loop') = 1
       /\ frameLog'.updates <= 1]_vars

\* the effect of the hook has re-run at the commits of a started run, and
\* the one pending frame has just advanced the run a second time
ResubscribedLoopTicks ==
    /\ loop.running /\ loop.requested
    /\ gameState.isRunning /\ gameTime >= 180
    /\ frameLog.updates = 1

\* cleanup runs for oscillator i in this step
CleanupRuns(i) == OscillatorEnded(i) \/ CleanupTimeout(i)

====
